---- MODULE Spec2Model ----
(***************************************************************************)
(* Model of the calculation engine of the "Simulador de Meta Patrimonial"  *)
(* (src/src/lib/calculos.ts): inflation schedule lookup, contribution      *)
(* policies, the month-by-month projection and the two inverse solvers.    *)
(*                                                                         *)
(* Numbers.  A JavaScript number is modelled as an exact rational <<n, d>> *)
(* in lowest terms with d > 0, extended with the three IEEE-754 special    *)
(* values: <<1, 0>> is +Infinity, <<-1, 0>> is -Infinity and <<0, 0>> is   *)
(* NaN.  Rounding error and overflow of finite values are not modelled;    *)
(* division by zero and a fractional power of a negative base produce the  *)
(* special values exactly as IEEE-754 does.  Math.pow(x, 1/12) is exact on *)
(* the rationals whose numerator and denominator are 12th powers, and the  *)
(* inputs that pass through it are drawn from that set.                    *)
(***************************************************************************)
EXTENDS Integers, Sequences, FiniteSets, TLC

----------------------------------------------------------------------------
(* Bounds of the model *)

\* largest integer whose 12th power is looked up by Root12
MaxRootBase == 3

\* bisection steps of aporteNecessario the model runs (the code runs 80)
MaxBisecao == 4

\* search iterations of taxaNecessaria the model runs (the code runs 160)
MaxIterTaxa == 4

\* months and years the pure functions are evaluated at
MaxMes == 25

MaxAno == 4

\* the longest schedule text parsed
MaxTexto == 4

\* the number of form events (edits, saves, clears, mounts) followed
MaxPassos == 4

----------------------------------------------------------------------------
(* Arithmetic of JavaScript numbers *)

NaN    == <<0, 0>>
PosInf == <<1, 0>>
NegInf == <<-1, 0>>
Zero   == <<0, 1>>
One    == <<1, 1>>

Abs(k) == IF k < 0 THEN -k ELSE k

Sgn(k) == IF k > 0 THEN 1 ELSE IF k < 0 THEN -1 ELSE 0

RECURSIVE GCD(_, _)
GCD(a, b) == IF b = 0 THEN a ELSE GCD(b, a % b)

\* the rational n/d (d > 0) in lowest terms
Norm(n, d) ==
  LET g == GCD(Abs(n), d)
  IN  <<n \div g, d \div g>>

Num(k) == <<k, 1>>

Frac(n, d) == Norm(n, d)

IsNaN(x) == x[1] = 0 /\ x[2] = 0

IsFinite(x) == x[2] > 0

IsInf(x) == x[2] = 0 /\ x[1] # 0

Neg(x) == <<-x[1], x[2]>>

Add(x, y) ==
  IF IsNaN(x) \/ IsNaN(y) THEN NaN
  ELSE IF IsInf(x) /\ IsInf(y) THEN (IF x = y THEN x ELSE NaN)
  ELSE IF IsInf(x) THEN x
  ELSE IF IsInf(y) THEN y
  ELSE Norm(x[1] * y[2] + y[1] * x[2], x[2] * y[2])

Sub(x, y) == Add(x, Neg(y))

Mul(x, y) ==
  IF IsNaN(x) \/ IsNaN(y) THEN NaN
  ELSE IF IsInf(x) \/ IsInf(y)
       THEN (IF x[1] = 0 \/ y[1] = 0 THEN NaN
             ELSE <<Sgn(x[1]) * Sgn(y[1]), 0>>)
  ELSE Norm(x[1] * y[1], x[2] * y[2])

Div(x, y) ==
  IF IsNaN(x) \/ IsNaN(y) THEN NaN
  ELSE IF IsInf(y) THEN (IF IsInf(x) THEN NaN ELSE Zero)
  ELSE IF y[1] = 0 THEN (IF x[1] = 0 THEN NaN ELSE <<Sgn(x[1]), 0>>)
  ELSE IF IsInf(x) THEN <<Sgn(x[1]) * Sgn(y[1]), 0>>
  ELSE Norm(x[1] * y[2] * Sgn(y[1]), x[2] * Abs(y[1]))

\* x >= y of JavaScript: false as soon as one side is NaN
Geq(x, y) ==
  IF IsNaN(x) \/ IsNaN(y) THEN FALSE
  ELSE IF x = PosInf \/ y = NegInf THEN TRUE
  ELSE IF x = NegInf \/ y = PosInf THEN FALSE
  ELSE x[1] * y[2] >= y[1] * x[2]

Leq(x, y) == Geq(y, x)

Gt(x, y) == Geq(x, y) /\ x # y

Lt(x, y) == Gt(y, x)

\* Math.max(x, y): NaN if either is NaN
Max(x, y) ==
  IF IsNaN(x) \/ IsNaN(y) THEN NaN
  ELSE IF Geq(x, y) THEN x ELSE y

\* Math.pow(x, k) for an integer k >= 0; Math.pow(x, 0) is 1 for every x
RECURSIVE Pow(_, _)
Pow(x, k) == IF k = 0 THEN One ELSE Mul(x, Pow(x, k - 1))

\* integer power, used to look up exact roots
RECURSIVE IPow(_, _)
IPow(b, k) == IF k = 0 THEN 1 ELSE b * IPow(b, k - 1)

IRoot12(n) == CHOOSE b \in 0..MaxRootBase : IPow(b, 12) = n

\* Math.pow(x, 1/12): NaN for a negative base, exact on 12th powers
Root12(x) ==
  IF IsNaN(x) THEN NaN
  ELSE IF x[1] < 0 THEN NaN
  ELSE IF x = PosInf THEN PosInf
  ELSE <<IRoot12(x[1]), IRoot12(x[2])>>

\* Math.floor, Math.round and Math.ceil of a finite number, as integers
Floor(x) == x[1] \div x[2]

Round(x) == Floor(Add(x, Frac(1, 2)))

MaxInt(a, b) == IF a >= b THEN a ELSE b

\* the midpoint (x + y) / 2 of two finite numbers, computed as x/2 + y/2: the
\* same rational, without forming the sum
Media(x, y) == Add(Div(x, Num(2)), Div(y, Num(2)))

----------------------------------------------------------------------------
(* Inflation schedule: an optional array of annual rates *)

Undefined == [def |-> FALSE, v |-> <<>>]

Tab(s) == [def |-> TRUE, v |-> s]

\* variant: beyond the end of the schedule, fall back to the default rate
inflacaoAnualDoAnoPadraoAlem(anoIndex, inflacaoPadrao, tabela) ==
  IF ~tabela.def \/ Len(tabela.v) = 0 THEN inflacaoPadrao
  ELSE IF anoIndex - 1 < Len(tabela.v) THEN tabela.v[anoIndex]
  ELSE inflacaoPadrao

\* the rate of year anoIndex: the schedule entry, its last entry beyond the
\* end, the default rate without a schedule
inflacaoAnualDoAno(anoIndex, inflacaoPadrao, tabela) ==
  IF ~tabela.def \/ Len(tabela.v) = 0 THEN inflacaoPadrao
  ELSE IF anoIndex - 1 < Len(tabela.v) THEN tabela.v[anoIndex]
  ELSE tabela.v[Len(tabela.v)]

\* variant: the year of month mes taken as floor(mes / 12) + 1
inflacaoMensalDoMesPiso(mes, inflacaoPadrao, tabela) ==
  LET ano == (mes \div 12) + 1
      ia  == inflacaoAnualDoAno(ano, inflacaoPadrao, tabela)
  IN  Sub(Root12(Add(One, ia)), One)

\* the monthly equivalent of the annual rate of the year of month mes
inflacaoMensalDoMes(mes, inflacaoPadrao, tabela) ==
  LET ano == (mes + 11) \div 12
      ia  == inflacaoAnualDoAno(ano, inflacaoPadrao, tabela)
  IN  Sub(Root12(Add(One, ia)), One)

----------------------------------------------------------------------------
(* parseInflacaoTabela: a text is a sequence of one-character strings *)

\* the characters the split pattern [,;\n\t\s]+ matches
Separadores == {",", ";", "\n", "\t", " "}

Digitos == {"0", "4"}

ValorDoDigito(c) == IF c = "4" THEN 4 ELSE 0

\* split, trim and filter(Boolean): the maximal runs of characters that are
\* not separators, in order (the empty pieces of split are filtered out)
RECURSIVE partes(_, _, _)
partes(str, k, atual) ==
  IF k > Len(str)
  THEN IF atual = <<>> THEN <<>> ELSE <<atual>>
  ELSE IF str[k] \in Separadores
       THEN (IF atual = <<>> THEN <<>> ELSE <<atual>>) \o partes(str, k + 1, <<>>)
       ELSE partes(str, k + 1, Append(atual, str[k]))

\* s.replace(/%/g, ""): every percent sign is removed
semPercent(s) == SelectSeq(s, LAMBDA c : c # "%")

\* s.replace(",", "."): the first comma becomes a point
RECURSIVE trocaVirgula(_)
trocaVirgula(s) ==
  IF s = <<>> THEN <<>>
  ELSE IF Head(s) = "," THEN <<".">> \o Tail(s)
  ELSE <<Head(s)>> \o trocaVirgula(Tail(s))

RECURSIVE ValorInteiro(_)
ValorInteiro(ds) ==
  IF ds = <<>> THEN 0
  ELSE 10 * ValorInteiro(SubSeq(ds, 1, Len(ds) - 1)) + ValorDoDigito(ds[Len(ds)])

RECURSIVE DezElevado(_)
DezElevado(k) == IF k = 0 THEN 1 ELSE 10 * DezElevado(k - 1)

\* Number(s) on the characters of the model: the empty string is 0; an
\* optional sign, digits with at most one point and at least one digit is
\* that decimal number; anything else is NaN
NumberDe(s) ==
  IF s = <<>> THEN Zero
  ELSE
    LET sinal == IF Head(s) = "-" THEN -1 ELSE 1
        corpo == IF Head(s) \in {"-", "+"} THEN Tail(s) ELSE s
        pontos == {k \in 1..Len(corpo) : corpo[k] = "."}
        p == IF pontos = {} THEN Len(corpo) + 1 ELSE CHOOSE k \in pontos : TRUE
        antes == SubSeq(corpo, 1, p - 1)
        depois == SubSeq(corpo, p + 1, Len(corpo))
    IN  IF /\ Cardinality(pontos) <= 1
           /\ \A k \in 1..Len(corpo) : corpo[k] \in Digitos \cup {"."}
           /\ Len(antes) + Len(depois) >= 1
        THEN Frac(sinal * (ValorInteiro(antes) * DezElevado(Len(depois))
                           + ValorInteiro(depois)),
                  DezElevado(Len(depois)))
        ELSE NaN

\* variant: no floor on the parsed values
pisoDaTabelaSemPiso(x) == x

\* Math.max(-0.99, x)
pisoDaTabela(x) == Max(Frac(-99, 100), x)

RECURSIVE mapNumber(_)
mapNumber(ts) ==
  IF ts = <<>> THEN <<>>
  ELSE <<NumberDe(trocaVirgula(semPercent(Head(ts))))>> \o mapNumber(Tail(ts))

RECURSIVE mapPiso(_)
mapPiso(xs) ==
  IF xs = <<>> THEN <<>> ELSE <<pisoDaTabela(Head(xs))>> \o mapPiso(Tail(xs))

parseInflacaoTabela(str) ==
  mapPiso(SelectSeq(mapNumber(partes(str, 1, <<>>)), IsFinite))

----------------------------------------------------------------------------
(* Contribution policies *)

Constante == [tipo |-> "constante"]

MensalPct(g) == [tipo |-> "mensal_pct", mensalPct |-> g]

AnualPct(g) == [tipo |-> "anual_pct", anualPct |-> g]

AnualInflacao == [tipo |-> "anual_inflacao"]

AnualReal(e) == [tipo |-> "anual_real", realExtra |-> e]

\* variant: the year is counted one month early, the step-up lands on month 11
anosDecorridosAjusteCedo(mes) == (mes + 1) \div 12

\* the number of full years elapsed at month mes
anosDecorridosAjuste(mes) == mes \div 12

\* variant: inflation and the extra rate added, not compounded
RECURSIVE fatorInflacaoAditivo(_, _, _, _)
fatorInflacaoAditivo(anos, extra, inflacaoAnual, inflacaoTabela) ==
  IF anos = 0 THEN One
  ELSE Mul(fatorInflacaoAditivo(anos - 1, extra, inflacaoAnual, inflacaoTabela),
           Add(Add(One, inflacaoAnualDoAno(anos, inflacaoAnual, inflacaoTabela)),
               extra))

\* the loops of the two inflation-linked policies: the product over the
\* years 1..anos of (1 + inflation of the year) * (1 + extra)
RECURSIVE fatorInflacao(_, _, _, _)
fatorInflacao(anos, extra, inflacaoAnual, inflacaoTabela) ==
  IF anos = 0 THEN One
  ELSE Mul(fatorInflacao(anos - 1, extra, inflacaoAnual, inflacaoTabela),
           Mul(Add(One, inflacaoAnualDoAno(anos, inflacaoAnual, inflacaoTabela)),
               Add(One, extra)))

RECURSIVE fatorInflacaoSimples(_, _, _)
fatorInflacaoSimples(anos, inflacaoAnual, inflacaoTabela) ==
  IF anos = 0 THEN One
  ELSE Mul(fatorInflacaoSimples(anos - 1, inflacaoAnual, inflacaoTabela),
           Add(One, inflacaoAnualDoAno(anos, inflacaoAnual, inflacaoTabela)))

\* variant: mensal_pct grows already in month 1
aporteNoMesCresceNoMes1(mes, base, politica, inflacaoAnual, inflacaoTabela) ==
  CASE politica.tipo = "constante" -> base
    [] politica.tipo = "mensal_pct" ->
         Mul(base, Pow(Add(One, politica.mensalPct), mes))
    [] politica.tipo = "anual_pct" ->
         Mul(base, Pow(Add(One, politica.anualPct), anosDecorridosAjuste(mes)))
    [] politica.tipo = "anual_inflacao" ->
         Mul(base, fatorInflacaoSimples(anosDecorridosAjuste(mes),
                                        inflacaoAnual, inflacaoTabela))
    [] politica.tipo = "anual_real" ->
         Mul(base, fatorInflacao(anosDecorridosAjuste(mes), politica.realExtra,
                                 inflacaoAnual, inflacaoTabela))
    [] OTHER -> base

aporteNoMes(mes, base, politica, inflacaoAnual, inflacaoTabela) ==
  CASE politica.tipo = "constante" -> base
    [] politica.tipo = "mensal_pct" ->
         Mul(base, Pow(Add(One, politica.mensalPct), mes - 1))
    [] politica.tipo = "anual_pct" ->
         Mul(base, Pow(Add(One, politica.anualPct), anosDecorridosAjuste(mes)))
    [] politica.tipo = "anual_inflacao" ->
         Mul(base, fatorInflacaoSimples(anosDecorridosAjuste(mes),
                                        inflacaoAnual, inflacaoTabela))
    [] politica.tipo = "anual_real" ->
         Mul(base, fatorInflacao(anosDecorridosAjuste(mes), politica.realExtra,
                                 inflacaoAnual, inflacaoTabela))
    [] OTHER -> base

----------------------------------------------------------------------------
(* calcularProjecao *)

\* "no month": the null of mesAlvo
Null == -1

\* the null of a number (taxaNecessaria's found and result)
NullNum == <<>>

taxaMensalNominalConst(p) == Sub(Root12(Add(One, p.rentabAnual)), One)

\* variant: the horizon is rounded to the nearest month, as the solvers do
mesesLimiteRound(p) == MaxInt(1, Round(Mul(p.anosLimite, Num(12))))

mesesLimite(p) == MaxInt(1, Floor(Mul(p.anosLimite, Num(12))))

\* variant: deflates by inflation whatever usarTaxaReal says
taxaMensalEfetivaSempreReal(p, mes) ==
  LET inflMensal == inflacaoMensalDoMes(mes, p.inflacaoAnual, p.inflacaoTabela)
  IN  Sub(Div(Add(One, taxaMensalNominalConst(p)), Add(One, inflMensal)), One)

\* variant: the flag read the wrong way round
taxaMensalEfetivaInvertida(p, mes) ==
  LET inflMensal == inflacaoMensalDoMes(mes, p.inflacaoAnual, p.inflacaoTabela)
  IN  IF ~p.usarTaxaReal
      THEN Sub(Div(Add(One, taxaMensalNominalConst(p)), Add(One, inflMensal)), One)
      ELSE taxaMensalNominalConst(p)

\* the effective rate of month mes
taxaMensalEfetiva(p, mes) ==
  LET inflMensal == inflacaoMensalDoMes(mes, p.inflacaoAnual, p.inflacaoTabela)
  IN  IF p.usarTaxaReal
      THEN Sub(Div(Add(One, taxaMensalNominalConst(p)), Add(One, inflMensal)), One)
      ELSE taxaMensalNominalConst(p)

\* variant: the seed balance must exceed the target to count as reached
projSeedEstrito(p) ==
  LET saldo == p.montanteInicial
      contribuicoesAcum == p.montanteInicial
  IN  [m |-> 0,
       saldo |-> saldo,
       contribuicoesAcum |-> contribuicoesAcum,
       dados |-> <<[mes |-> 0, saldo |-> saldo,
                    contribuicoesAcum |-> contribuicoesAcum,
                    ganhosAcum |-> Sub(saldo, contribuicoesAcum),
                    aporte |-> Zero]>>,
       mesAlvo |-> IF Gt(saldo, p.meta) THEN 0 ELSE Null,
       somaInflacaoMensal |-> Zero]

\* the locals after the seed record is pushed, before the first month
projSeed(p) ==
  LET saldo == p.montanteInicial
      contribuicoesAcum == p.montanteInicial
  IN  [m |-> 0,
       saldo |-> saldo,
       contribuicoesAcum |-> contribuicoesAcum,
       dados |-> <<[mes |-> 0, saldo |-> saldo,
                    contribuicoesAcum |-> contribuicoesAcum,
                    ganhosAcum |-> Sub(saldo, contribuicoesAcum),
                    aporte |-> Zero]>>,
       mesAlvo |-> IF Geq(saldo, p.meta) THEN 0 ELSE Null,
       somaInflacaoMensal |-> Zero]

\* variant: the contribution is taken out of the balance
saldoDoMesRetira(saldo, aporteMes, taxa, contribuicaoNoInicio) ==
  IF contribuicaoNoInicio
  THEN Mul(Sub(saldo, aporteMes), Add(One, taxa))
  ELSE Sub(Mul(saldo, Add(One, taxa)), aporteMes)

\* variant: the contribution is always added before the growth
saldoDoMesSempreInicio(saldo, aporteMes, taxa, contribuicaoNoInicio) ==
  Mul(Add(saldo, aporteMes), Add(One, taxa))

\* the balance after the month's update, by the timing of the contribution
saldoDoMes(saldo, aporteMes, taxa, contribuicaoNoInicio) ==
  IF contribuicaoNoInicio
  THEN Mul(Add(saldo, aporteMes), Add(One, taxa))
  ELSE Add(Mul(saldo, Add(One, taxa)), aporteMes)

\* variant: the month also rewrites the contribution of the record before it
projMesAlteraAnterior(p, st) ==
  LET m == st.m + 1
      inflMensal == inflacaoMensalDoMes(m, p.inflacaoAnual, p.inflacaoTabela)
      taxa == taxaMensalEfetiva(p, m)
      aporteMes == aporteNoMes(m, p.aporteMensal, p.politicaAporte,
                               p.inflacaoAnual, p.inflacaoTabela)
      saldo == saldoDoMes(st.saldo, aporteMes, taxa, p.contribuicaoNoInicio)
      contribuicoesAcum == Add(st.contribuicoesAcum, aporteMes)
      ganhosAcum == Sub(saldo, contribuicoesAcum)
      antes == [st.dados EXCEPT ![Len(st.dados)].aporte = aporteMes]
  IN  [m |-> m,
       saldo |-> saldo,
       contribuicoesAcum |-> contribuicoesAcum,
       dados |-> Append(antes, [mes |-> m, saldo |-> saldo,
                                contribuicoesAcum |-> contribuicoesAcum,
                                ganhosAcum |-> ganhosAcum,
                                aporte |-> aporteMes]),
       mesAlvo |-> IF st.mesAlvo = Null /\ Geq(saldo, p.meta) THEN m ELSE st.mesAlvo,
       somaInflacaoMensal |-> Add(st.somaInflacaoMensal, inflMensal)]

\* variant: the contribution is counted only when paid at the start
projMesContaSoNoInicio(p, st) ==
  LET m == st.m + 1
      inflMensal == inflacaoMensalDoMes(m, p.inflacaoAnual, p.inflacaoTabela)
      taxa == taxaMensalEfetiva(p, m)
      aporteMes == aporteNoMes(m, p.aporteMensal, p.politicaAporte,
                               p.inflacaoAnual, p.inflacaoTabela)
      saldo == saldoDoMes(st.saldo, aporteMes, taxa, p.contribuicaoNoInicio)
      contribuicoesAcum == IF p.contribuicaoNoInicio
                           THEN Add(st.contribuicoesAcum, aporteMes)
                           ELSE st.contribuicoesAcum
      ganhosAcum == Sub(saldo, contribuicoesAcum)
  IN  [m |-> m,
       saldo |-> saldo,
       contribuicoesAcum |-> contribuicoesAcum,
       dados |-> Append(st.dados, [mes |-> m, saldo |-> saldo,
                                   contribuicoesAcum |-> contribuicoesAcum,
                                   ganhosAcum |-> ganhosAcum,
                                   aporte |-> aporteMes]),
       mesAlvo |-> IF st.mesAlvo = Null /\ Geq(saldo, p.meta) THEN m ELSE st.mesAlvo,
       somaInflacaoMensal |-> Add(st.somaInflacaoMensal, inflMensal)]

\* variant: every month that meets the target overwrites mesAlvo
projMesSobrescreve(p, st) ==
  LET m == st.m + 1
      inflMensal == inflacaoMensalDoMes(m, p.inflacaoAnual, p.inflacaoTabela)
      taxa == taxaMensalEfetiva(p, m)
      aporteMes == aporteNoMes(m, p.aporteMensal, p.politicaAporte,
                               p.inflacaoAnual, p.inflacaoTabela)
      saldo == IF p.contribuicaoNoInicio
               THEN Mul(Add(st.saldo, aporteMes), Add(One, taxa))
               ELSE Add(Mul(st.saldo, Add(One, taxa)), aporteMes)
      contribuicoesAcum == Add(st.contribuicoesAcum, aporteMes)
      ganhosAcum == Sub(saldo, contribuicoesAcum)
  IN  [m |-> m,
       saldo |-> saldo,
       contribuicoesAcum |-> contribuicoesAcum,
       dados |-> Append(st.dados, [mes |-> m, saldo |-> saldo,
                                   contribuicoesAcum |-> contribuicoesAcum,
                                   ganhosAcum |-> ganhosAcum,
                                   aporte |-> aporteMes]),
       mesAlvo |-> IF Geq(saldo, p.meta) THEN m ELSE st.mesAlvo,
       somaInflacaoMensal |-> Add(st.somaInflacaoMensal, inflMensal)]

\* one pass of the month loop, for month st.m + 1
projMes(p, st) ==
  LET m == st.m + 1
      inflMensal == inflacaoMensalDoMes(m, p.inflacaoAnual, p.inflacaoTabela)
      taxa == taxaMensalEfetiva(p, m)
      aporteMes == aporteNoMes(m, p.aporteMensal, p.politicaAporte,
                               p.inflacaoAnual, p.inflacaoTabela)
      saldo == saldoDoMes(st.saldo, aporteMes, taxa, p.contribuicaoNoInicio)
      contribuicoesAcum == Add(st.contribuicoesAcum, aporteMes)
      ganhosAcum == Sub(saldo, contribuicoesAcum)
  IN  [m |-> m,
       saldo |-> saldo,
       contribuicoesAcum |-> contribuicoesAcum,
       dados |-> Append(st.dados, [mes |-> m, saldo |-> saldo,
                                   contribuicoesAcum |-> contribuicoesAcum,
                                   ganhosAcum |-> ganhosAcum,
                                   aporte |-> aporteMes]),
       mesAlvo |-> IF st.mesAlvo = Null /\ Geq(saldo, p.meta) THEN m ELSE st.mesAlvo,
       somaInflacaoMensal |-> Add(st.somaInflacaoMensal, inflMensal)]

\* the value returned once the loop has ended
projRetorno(p, st) ==
  [dados |-> st.dados,
   mesAlvo |-> st.mesAlvo,
   taxaMensalNominalConst |-> taxaMensalNominalConst(p),
   taxaMensalInflacaoMedia |->
     Div(st.somaInflacaoMensal, Num(MaxInt(1, mesesLimite(p))))]

\* the whole function, as the solvers call it
RECURSIVE projLoop(_, _)
projLoop(p, st) ==
  IF st.m + 1 <= mesesLimite(p) THEN projLoop(p, projMes(p, st)) ELSE st

calcularProjecao(p) == projRetorno(p, projLoop(p, projSeed(p)))

----------------------------------------------------------------------------
(* aporteNecessario *)

\* variant: the month count is rounded up past every whole month
nMesesTeto(p) == MaxInt(1, Floor(Mul(p.anosLimite, Num(12))) + 1)

\* the month count of the two solvers
nMeses(p) == MaxInt(1, Round(Mul(p.anosLimite, Num(12))))

\* variant: only the balance at the horizon decides
atingeMetaSoSaldoFinal(p, A) ==
  LET r == calcularProjecao([p EXCEPT !.aporteMensal = A])
      saldoFinal == IF nMeses(p) + 1 <= Len(r.dados)
                    THEN r.dados[nMeses(p) + 1].saldo
                    ELSE r.dados[Len(r.dados)].saldo
  IN  Geq(saldoFinal, p.meta)

\* does the base contribution A reach the target within the horizon?
atingeMetaComAporte(p, A) ==
  LET r == calcularProjecao([p EXCEPT !.aporteMensal = A])
      saldoFinal == IF nMeses(p) + 1 <= Len(r.dados)
                    THEN r.dados[nMeses(p) + 1].saldo
                    ELSE r.dados[Len(r.dados)].saldo
  IN  IF r.mesAlvo # Null /\ r.mesAlvo <= nMeses(p) THEN TRUE
      ELSE Geq(saldoFinal, p.meta)

\* the first upper bound, the cap of the doubling and its largest bound
HiMinimo == 100

MaxDobras == 50

HiMaximo == 1000000000

\* the locals before the doubling loop
apInicio(p) ==
  [lo |-> Zero,
   hi |-> Max(Num(HiMinimo), Div(p.meta, Num(nMeses(p)))),
   safety |-> 0,
   i |-> 0]

\* the condition of the doubling loop
apDobraCond(p, s) == ~atingeMetaComAporte(p, s.hi) /\ s.safety < MaxDobras

\* the body of the doubling loop, up to its break
apDobra(s) == [s EXCEPT !.hi = Mul(s.hi, Num(2)), !.safety = s.safety + 1]

\* variant: the doubling has no break on the size of the bound
apDobraBreakNunca(s) == FALSE

apDobraBreak(s) == Gt(s.hi, Num(HiMaximo))

\* variant: the halves of the bracket are swapped
apBisecaoTrocada(p, s) ==
  LET mid == Media(s.lo, s.hi)
  IN  IF atingeMetaComAporte(p, mid)
      THEN [s EXCEPT !.lo = mid, !.i = s.i + 1]
      ELSE [s EXCEPT !.hi = mid, !.i = s.i + 1]

\* one bisection step
apBisecao(p, s) ==
  LET mid == Media(s.lo, s.hi)
  IN  IF atingeMetaComAporte(p, mid)
      THEN [s EXCEPT !.hi = mid, !.i = s.i + 1]
      ELSE [s EXCEPT !.lo = mid, !.i = s.i + 1]

\* variant: the lower end of the bracket is returned
apRetornoLo(s) == s.lo

\* the value returned: the upper end of the final bracket
apRetorno(s) == s.hi

----------------------------------------------------------------------------
(* taxaNecessaria *)

\* the final balance of the inline month loop for a monthly nominal rate
RECURSIVE saldoAteMes(_, _, _)
saldoAteMes(p, rMensalNominalConst, m) ==
  IF m = 0 THEN p.montanteInicial
  ELSE LET inflMensal == inflacaoMensalDoMes(m, p.inflacaoAnual, p.inflacaoTabela)
           rEfetivo == IF p.usarTaxaReal
                       THEN Sub(Div(Add(One, rMensalNominalConst),
                                    Add(One, inflMensal)), One)
                       ELSE rMensalNominalConst
           aporteMes == aporteNoMes(m, p.aporteMensal, p.politicaAporte,
                                    p.inflacaoAnual, p.inflacaoTabela)
           saldo == saldoAteMes(p, rMensalNominalConst, m - 1)
       IN  IF p.contribuicaoNoInicio
           THEN Mul(Add(saldo, aporteMes), Add(One, rEfetivo))
           ELSE Add(Mul(saldo, Add(One, rEfetivo)), aporteMes)

saldoFinalComTaxa(p, rMensalNominalConst) ==
  saldoAteMes(p, rMensalNominalConst, nMeses(p))

RECURSIVE Soma(_)
Soma(v) == IF Len(v) = 0 THEN Zero ELSE Add(Soma(SubSeq(v, 1, Len(v) - 1)), v[Len(v)])

inflacaoMediaAnual(p) ==
  IF p.inflacaoTabela.def /\ Len(p.inflacaoTabela.v) > 0
  THEN Div(Soma(p.inflacaoTabela.v), Num(Len(p.inflacaoTabela.v)))
  ELSE p.inflacaoAnual

\* The annual rate of a monthly rate is a 12th power of a number with a
\* large denominator: it is kept in factored form, Anual(b, f) standing for
\* the number b^12 * f - 1.
Anual(b, f) == [base12 |-> b, fator |-> f]

toAnualNominal(p, rMensal) ==
  IF ~p.usarTaxaReal THEN Anual(Add(One, rMensal), One)
  ELSE Anual(Add(One, rMensal), Add(One, inflacaoMediaAnual(p)))

\* The single-file copy of the application (unnamed/part_000) has its own
\* taxaNecessaria, the same line for line but for the inflation it compounds
\* with: the first entry of the schedule.
infMedia(p) ==
  IF p.inflacaoTabela.def /\ Len(p.inflacaoTabela.v) > 0
  THEN p.inflacaoTabela.v[1]
  ELSE p.inflacaoAnual

toAnualNominalApp(p, rMensal) ==
  IF ~p.usarTaxaReal THEN Anual(Add(One, rMensal), One)
  ELSE Anual(Add(One, rMensal), Add(One, infMedia(p)))

\* the locals before the search loop
txInicio == [lo |-> Frac(-9, 10), hi |-> One, i |-> 0, found |-> NullNum]

txMid(s) == Media(s.lo, s.hi)

\* variant: only NaN ends the loop, an infinite balance is compared
txBreakSoNaN(p, s) == IsNaN(saldoFinalComTaxa(p, txMid(s)))

\* a candidate whose balance is not finite ends the loop
txBreak(p, s) == ~IsFinite(saldoFinalComTaxa(p, txMid(s)))

\* variant: a qualifying candidate raises the lower end of the bracket
txPassoSobeLo(p, s) ==
  LET mid == txMid(s)
      sf  == saldoFinalComTaxa(p, mid)
  IN  IF Geq(sf, p.meta)
      THEN [s EXCEPT !.found = mid, !.lo = mid, !.i = s.i + 1]
      ELSE [s EXCEPT !.hi = mid, !.i = s.i + 1]

\* variant: the candidate is remembered whether or not it qualifies
txPassoSempreFound(p, s) ==
  LET mid == txMid(s)
      sf  == saldoFinalComTaxa(p, mid)
  IN  IF Geq(sf, p.meta)
      THEN [s EXCEPT !.found = mid, !.hi = mid, !.i = s.i + 1]
      ELSE [s EXCEPT !.found = mid, !.lo = mid, !.i = s.i + 1]

\* one pass of the search loop that does not break
txPasso(p, s) ==
  LET mid == txMid(s)
      sf  == saldoFinalComTaxa(p, mid)
  IN  IF Geq(sf, p.meta)
      THEN [s EXCEPT !.found = mid, !.hi = mid, !.i = s.i + 1]
      ELSE [s EXCEPT !.lo = mid, !.i = s.i + 1]

txRetorno(p, s) == IF s.found = NullNum THEN NullNum ELSE toAnualNominal(p, s.found)

txRetornoApp(p, s) ==
  IF s.found = NullNum THEN NullNum ELSE toAnualNominalApp(p, s.found)

----------------------------------------------------------------------------
(* Inputs.  Amounts and rates reach the engine through NumberField, which  *)
(* replaces a non-finite entry by 0 and does not clamp: every parameter is *)
(* a finite number, and a rate may be -1 or lower.                         *)

\* annual rates whose 1 + rate has an exact 12th root (or none: -2)
TaxasRaiz == {Num(-2), Num(-1), Frac(-4095, 4096), Zero, Num(4095)}

Tabelas == {Undefined, Tab(<<>>), Tab(<<Num(4095)>>)}

\* short horizons, every kind of rate
ProjCurto ==
  [montanteInicial : {Zero, Num(2)},
   aporteMensal : {Zero, One},
   rentabAnual : TaxasRaiz,
   meta : {Num(2), Num(4)},
   anosLimite : {Num(-1), Zero, Frac(1, 24), Frac(1, 8), Frac(1, 6), Frac(1, 4)},
   contribuicaoNoInicio : BOOLEAN,
   usarTaxaReal : BOOLEAN,
   inflacaoAnual : {Num(-1), Zero, Num(4095)},
   inflacaoTabela : Tabelas,
   politicaAporte : {Constante, MensalPct(Frac(-1, 2))}]

\* horizons of two years and more, nominal mode
ProjLongo ==
  [montanteInicial : {Zero, One},
   aporteMensal : {One},
   rentabAnual : {Zero},
   meta : {Num(30), Num(100000)},
   anosLimite : {Num(2), Frac(25, 12)},
   contribuicaoNoInicio : BOOLEAN,
   usarTaxaReal : {FALSE},
   inflacaoAnual : {Zero, Num(4095)},
   inflacaoTabela : {Undefined, Tab(<<Num(4095), Zero>>)},
   politicaAporte : {AnualPct(Frac(1, 10)), AnualPct(Frac(-1, 2)),
                     AnualInflacao, AnualReal(One)}]

\* real mode over a year and a month with nothing contributed: the nominal
\* rate against a default inflation, a flat schedule and a falling one
ProjNeutro ==
  [montanteInicial : {One, Num(2)},
   aporteMensal : {Zero},
   rentabAnual : {Zero, Num(4095), Frac(-4095, 4096)},
   meta : {Num(4)},
   anosLimite : {One, Frac(13, 12)},
   contribuicaoNoInicio : BOOLEAN,
   usarTaxaReal : {TRUE},
   inflacaoAnual : {Zero, Num(4095), Frac(-4095, 4096)},
   inflacaoTabela : {Undefined, Tab(<<Num(4095), Num(4095)>>),
                     Tab(<<Num(4095), Zero>>)},
   politicaAporte : {Constante}]

ProjParams == ProjCurto \cup ProjLongo \cup ProjNeutro

\* aporteNecessario takes no aporteMensal; with a rate of -1 or lower the
\* doubling can run to its cap: such rates come with one simulated month
ApComum ==
  [montanteInicial : {Zero, One},
   aporteMensal : {Zero},
   rentabAnual : {Frac(-4095, 4096), Zero, Num(4095)},
   meta : {Num(50), Num(200), Num(301)},
   anosLimite : {Frac(1, 12), Frac(1, 8), Frac(1, 6)},
   contribuicaoNoInicio : BOOLEAN,
   usarTaxaReal : BOOLEAN,
   inflacaoAnual : {Zero, Num(4095)},
   inflacaoTabela : {Undefined, Tab(<<Num(4095)>>)},
   politicaAporte : {Constante, MensalPct(Frac(-1, 2))}]

ApAdverso ==
  [montanteInicial : {Zero, One},
   aporteMensal : {Zero},
   rentabAnual : TaxasRaiz,
   meta : {Num(50), Num(200), Num(301)},
   anosLimite : {Frac(1, 12), Frac(1, 8)},
   contribuicaoNoInicio : BOOLEAN,
   usarTaxaReal : BOOLEAN,
   inflacaoAnual : {Num(-1), Zero, Num(4095)},
   inflacaoTabela : {Undefined, Tab(<<Num(4095)>>)},
   politicaAporte : {Constante, MensalPct(Frac(-1, 2))}]

\* no return, nothing invested at the start: targets that bisection from 100
\* does not hit exactly, over one month to a year
ApSemJuros ==
  [montanteInicial : {Zero},
   aporteMensal : {Zero},
   rentabAnual : {Zero},
   meta : {Num(30), Num(70), Num(1200)},
   anosLimite : {Frac(1, 12), Frac(1, 6), Frac(1, 4), One},
   contribuicaoNoInicio : BOOLEAN,
   usarTaxaReal : {FALSE},
   inflacaoAnual : {Zero},
   inflacaoTabela : {Undefined},
   politicaAporte : {Constante}]

ApParams == ApComum \cup ApAdverso \cup ApSemJuros

\* taxaNecessaria takes no rentabAnual
TxParams ==
  [montanteInicial : {Zero, One},
   aporteMensal : {Zero, One},
   rentabAnual : {Zero},
   meta : {Zero, One, Num(2), Num(4)},
   anosLimite : {Frac(1, 12), Frac(1, 6)},
   contribuicaoNoInicio : BOOLEAN,
   usarTaxaReal : BOOLEAN,
   inflacaoAnual : {Num(-1), Frac(-4095, 4096), Zero, Num(4095)},
   inflacaoTabela : {Undefined, Tab(<<>>), Tab(<<Zero, Num(4095)>>)},
   politicaAporte : {Constante, MensalPct(One)}]

\* the value of params before any call
ParamsPadrao ==
  [montanteInicial |-> Zero, aporteMensal |-> Zero, rentabAnual |-> Zero,
   meta |-> Zero, anosLimite |-> Zero, contribuicaoNoInicio |-> TRUE,
   usarTaxaReal |-> FALSE, inflacaoAnual |-> Zero, inflacaoTabela |-> Undefined,
   politicaAporte |-> Constante]

----------------------------------------------------------------------------
(* The form of App and its stored configuration *)

\* a JavaScript value of the form: a number, a boolean, a string, null or
\* undefined (the components a type does not use are fixed)
JsNum(x) == [t |-> "number", n |-> x, b |-> FALSE, s |-> ""]

JsBool(x) == [t |-> "boolean", n |-> Zero, b |-> x, s |-> ""]

JsStr(x) == [t |-> "string", n |-> Zero, b |-> FALSE, s |-> x]

JsNull == [t |-> "null", n |-> Zero, b |-> FALSE, s |-> ""]

JsUndefined == [t |-> "undefined", n |-> Zero, b |-> FALSE, s |-> ""]

\* the fields salvarConfig writes, with the values useState gives them
Padroes ==
  [montanteInicial |-> JsNum(Num(10000)),
   aporteMensal |-> JsNum(Num(1000)),
   rentabAnual |-> JsNum(Frac(12, 100)),
   meta |-> JsNum(Num(1000000)),
   anosLimite |-> JsNum(Num(50)),
   contribuicaoNoInicio |-> JsBool(TRUE),
   usarTaxaReal |-> JsBool(FALSE),
   inflacaoAnual |-> JsNum(Frac(4, 100)),
   prazoDesejado |-> JsNum(Num(15)),
   tipoAporte |-> JsStr("constante"),
   mensalPct |-> JsNum(Zero),
   anualPct |-> JsNum(Frac(1, 10)),
   realExtra |-> JsNum(Frac(2, 100)),
   usaTabelaInflacao |-> JsBool(FALSE),
   inflacaoTabelaStr |-> JsStr("")]

Campos == DOMAIN Padroes

CamposNumberField ==
  {"montanteInicial", "aporteMensal", "rentabAnual", "meta", "inflacaoAnual",
   "mensalPct", "anualPct", "realExtra"}

CamposRange == {"anosLimite", "prazoDesejado"}

CamposCheckbox == {"contribuicaoNoInicio", "usarTaxaReal", "usaTabelaInflacao"}

\* NumberField.onChange: a text that is not a finite number becomes 0
doNumberField(next) == JsNum(IF IsFinite(next) THEN next ELSE Zero)

\* JSON.stringify of a field: a number that is not finite is written as
\* null, every other value of the form as itself
paraJSON(v) == IF v.t = "number" /\ ~IsFinite(v.n) THEN JsNull ELSE v

\* JSON.parse, then the read of a property: the value written, or undefined
\* for a key the snapshot does not have
doJSON(cfg, campo) == IF campo \notin DOMAIN cfg THEN JsUndefined ELSE cfg[campo]

\* if (cfg.tipoAporte)
Truthy(v) ==
  CASE v.t = "number" -> IsFinite(v.n) /\ v.n # Zero
    [] v.t = "boolean" -> v.b
    [] v.t = "string" -> v.s # ""
    [] OTHER -> FALSE

\* variant: the || operator, which also replaces 0, false and ""
ouPadraoFalsy(v, padrao) == IF ~Truthy(v) THEN padrao ELSE v

\* the ?? operator
ouPadrao(v, padrao) == IF v \in {JsNull, JsUndefined} THEN padrao ELSE v

\* the body of the load effect for a snapshot that parses
carregar(campos, cfg) ==
  [c \in Campos |->
     LET v == doJSON(cfg, c)
     IN  IF c \in {"montanteInicial", "aporteMensal", "rentabAnual", "meta",
                   "anosLimite", "contribuicaoNoInicio", "usarTaxaReal",
                   "inflacaoAnual", "prazoDesejado"}
         THEN ouPadrao(v, Padroes[c])
         ELSE IF c = "tipoAporte"
         THEN (IF Truthy(v) THEN v ELSE campos[c])
         ELSE (IF v # JsUndefined THEN v ELSE campos[c])]

\* salvarConfig: the text written under the key
salvar(campos) == [c \in Campos |-> paraJSON(campos[c])]

\* no item under the key
SemItem == [c \in {} |-> JsUndefined]

\* campos: the fields; guardado: the item of localStorage; aoSalvar
\* (history): the fields as they were at the last save still stored;
\* passos and ultima (history): the events so far and the last one
appInicio ==
  [campos |-> Padroes, guardado |-> SemItem, aoSalvar |-> SemItem,
   passos |-> 0, ultima |-> "nenhum"]

----------------------------------------------------------------------------
(* The state machine: one call of one function at a time *)

VARIABLES
  pc,         \* position: "idle", inside a loop of a function, "done"
  chamada,    \* the function called
  params,     \* its argument
  proj,       \* locals of calcularProjecao
  sol,        \* locals of the solver that runs
  avaliados,  \* history: the candidates taxaNecessaria has evaluated
  retAnterior,   \* history: what the call before this one returned
  app,        \* the form: its fields, the stored snapshot, the events so far
  ret         \* the value returned

vars == <<pc, chamada, params, proj, sol, avaliados, retAnterior, app, ret>>

Init ==
  /\ pc = "idle"
  /\ chamada = "nenhuma"
  /\ params = ParamsPadrao
  /\ proj = projSeed(ParamsPadrao)
  /\ sol = txInicio
  /\ avaliados = <<>>
  /\ retAnterior = NullNum
  /\ app = appInicio
  /\ ret = NullNum

(* calcularProjecao *)

\* every local of calcularProjecao is declared inside the call: a call starts
\* from the seed whatever an earlier call left behind
projChamadaHerdada(p) ==
  [projSeed(p) EXCEPT !.somaInflacaoMensal = proj.somaInflacaoMensal]

projChamada(p) == projSeed(p)

ChamaCalcularProjecao ==
  /\ pc = "idle"
  /\ \E p \in ProjParams :
       /\ params' = p
       /\ proj' = projChamada(p)
  /\ chamada' = "calcularProjecao"
  /\ pc' = "projLoop"
  /\ UNCHANGED <<sol, avaliados, ret, retAnterior, app>>

ProjMes ==
  /\ pc = "projLoop"
  /\ proj.m + 1 <= mesesLimite(params)
  /\ proj' = projMes(params, proj)
  /\ UNCHANGED <<pc, chamada, params, sol, avaliados, ret, retAnterior, app>>

ProjRetorna ==
  /\ pc = "projLoop"
  /\ ~(proj.m + 1 <= mesesLimite(params))
  /\ ret' = projRetorno(params, proj)
  /\ pc' = "done"
  /\ UNCHANGED <<chamada, params, proj, sol, avaliados, retAnterior, app>>

\* a second call with the parameters of the call that has just returned
RepeteCalcularProjecao ==
  /\ pc = "done"
  /\ chamada = "calcularProjecao"
  /\ retAnterior = NullNum
  /\ retAnterior' = ret
  /\ proj' = projChamada(params)
  /\ pc' = "projLoop"
  /\ UNCHANGED <<chamada, params, sol, avaliados, ret, app>>

(* aporteNecessario *)

ChamaAporteNecessario ==
  /\ pc = "idle"
  /\ \E p \in ApParams :
       /\ params' = p
       /\ sol' = apInicio(p)
  /\ chamada' = "aporteNecessario"
  /\ pc' = "apDobra"
  /\ UNCHANGED <<proj, avaliados, ret, retAnterior, app>>

ApDobra ==
  /\ pc = "apDobra"
  /\ apDobraCond(params, sol)
  /\ sol' = apDobra(sol)
  /\ pc' = IF apDobraBreak(sol') THEN "apBis" ELSE "apDobra"
  /\ UNCHANGED <<chamada, params, proj, avaliados, ret, retAnterior, app>>

ApDobraFim ==
  /\ pc = "apDobra"
  /\ ~apDobraCond(params, sol)
  /\ pc' = "apBis"
  /\ UNCHANGED <<chamada, params, proj, sol, avaliados, ret, retAnterior, app>>

ApBisecao ==
  /\ pc = "apBis"
  /\ sol.i < MaxBisecao
  /\ sol' = apBisecao(params, sol)
  /\ UNCHANGED <<pc, chamada, params, proj, avaliados, ret, retAnterior, app>>

ApRetorna ==
  /\ pc = "apBis"
  /\ ~(sol.i < MaxBisecao)
  /\ ret' = apRetorno(sol)
  /\ pc' = "done"
  /\ UNCHANGED <<chamada, params, proj, sol, avaliados, retAnterior, app>>

(* taxaNecessaria *)

ChamaTaxaNecessaria ==
  /\ pc = "idle"
  /\ \E p \in TxParams : params' = p
  /\ sol' = txInicio
  /\ avaliados' = <<>>
  /\ chamada' = "taxaNecessaria"
  /\ pc' = "txLoop"
  /\ UNCHANGED <<proj, ret, retAnterior, app>>

TxPasso ==
  /\ pc = "txLoop"
  /\ sol.i < MaxIterTaxa
  /\ ~txBreak(params, sol)
  /\ sol' = txPasso(params, sol)
  /\ avaliados' = Append(avaliados, [mid |-> txMid(sol),
                                     sf |-> saldoFinalComTaxa(params, txMid(sol))])
  /\ UNCHANGED <<pc, chamada, params, proj, ret, retAnterior, app>>

TxBreak ==
  /\ pc = "txLoop"
  /\ sol.i < MaxIterTaxa
  /\ txBreak(params, sol)
  /\ avaliados' = Append(avaliados, [mid |-> txMid(sol),
                                     sf |-> saldoFinalComTaxa(params, txMid(sol))])
  /\ pc' = "txFim"
  /\ UNCHANGED <<chamada, params, proj, sol, ret, retAnterior, app>>

TxFimLaco ==
  /\ pc = "txLoop"
  /\ ~(sol.i < MaxIterTaxa)
  /\ pc' = "txFim"
  /\ UNCHANGED <<chamada, params, proj, sol, avaliados, ret, retAnterior, app>>

TxRetorna ==
  /\ pc = "txFim"
  /\ chamada = "taxaNecessaria"
  /\ ret' = txRetorno(params, sol)
  /\ pc' = "done"
  /\ UNCHANGED <<chamada, params, proj, sol, avaliados, retAnterior, app>>

\* taxaNecessaria of the single-file copy: the same loop, its own conversion
ChamaTaxaNecessariaApp ==
  /\ pc = "idle"
  /\ \E p \in TxParams : params' = p
  /\ sol' = txInicio
  /\ avaliados' = <<>>
  /\ chamada' = "taxaNecessaria (part_000)"
  /\ pc' = "txLoop"
  /\ UNCHANGED <<proj, ret, retAnterior, app>>

TxRetornaApp ==
  /\ pc = "txFim"
  /\ chamada = "taxaNecessaria (part_000)"
  /\ ret' = txRetornoApp(params, sol)
  /\ pc' = "done"
  /\ UNCHANGED <<chamada, params, proj, sol, avaliados, retAnterior, app>>

(* the pure helpers, called on their own *)

ChamaAporteNoMes ==
  /\ pc = "idle"
  /\ \E mes \in 1..MaxMes, base \in {One, Num(3)},
        politica \in {Constante, MensalPct(One), MensalPct(Frac(-1, 2)), AnualPct(Frac(1, 10)),
                      AnualPct(Num(-1)), AnualPct(Num(-2)), AnualInflacao,
                      AnualReal(Frac(1, 50))},
        inflacaoAnual \in {Zero, Frac(1, 20)},
        inflacaoTabela \in {Undefined, Tab(<<Frac(1, 10), Zero>>)} :
       ret' = [mes |-> mes, base |-> base, politica |-> politica,
               inflacaoAnual |-> inflacaoAnual, inflacaoTabela |-> inflacaoTabela,
               valor |-> aporteNoMes(mes, base, politica, inflacaoAnual, inflacaoTabela)]
  /\ chamada' = "aporteNoMes"
  /\ pc' = "done"
  /\ UNCHANGED <<params, proj, sol, avaliados, retAnterior, app>>

ChamaInflacaoAnualDoAno ==
  /\ pc = "idle"
  /\ \E anoIndex \in 1..MaxAno, inflacaoPadrao \in {Zero, Frac(1, 25)},
        tabela \in {Undefined, Tab(<<>>), Tab(<<Frac(1, 10)>>),
                    Tab(<<Frac(1, 10), Zero>>),
                    Tab(<<Frac(1, 20), Frac(-99, 100), Frac(3, 100)>>)} :
       ret' = [anoIndex |-> anoIndex, inflacaoPadrao |-> inflacaoPadrao,
               tabela |-> tabela,
               valor |-> inflacaoAnualDoAno(anoIndex, inflacaoPadrao, tabela)]
  /\ chamada' = "inflacaoAnualDoAno"
  /\ pc' = "done"
  /\ UNCHANGED <<params, proj, sol, avaliados, retAnterior, app>>

ChamaInflacaoMensalDoMes ==
  /\ pc = "idle"
  /\ \E mes \in 1..MaxMes, inflacaoPadrao \in {Zero, Num(4095)},
        tabela \in {Undefined, Tab(<<Num(4095), Zero>>),
                    Tab(<<Zero, Frac(-4095, 4096), Num(4095)>>)} :
       ret' = [mes |-> mes, inflacaoPadrao |-> inflacaoPadrao, tabela |-> tabela,
               valor |-> inflacaoMensalDoMes(mes, inflacaoPadrao, tabela)]
  /\ chamada' = "inflacaoMensalDoMes"
  /\ pc' = "done"
  /\ UNCHANGED <<params, proj, sol, avaliados, retAnterior, app>>

\* the characters typed into the schedule field
Caracteres == {"0", "4", ".", ",", ";", " ", "\n", "%", "-", "a"}

Textos == UNION {[1..n -> Caracteres] : n \in 0..MaxTexto}

ChamaParseInflacaoTabela ==
  /\ pc = "idle"
  /\ \E str \in Textos :
       ret' = [str |-> str, valor |-> parseInflacaoTabela(str)]
  /\ chamada' = "parseInflacaoTabela"
  /\ pc' = "done"
  /\ UNCHANGED <<params, proj, sol, avaliados, retAnterior, app>>

(* the form: events of App, one at a time *)

\* the values an edit can give a field
Digitado(c) ==
  IF c \in CamposNumberField
  THEN {doNumberField(Zero), doNumberField(NaN), doNumberField(Num(7))}
  ELSE IF c \in CamposRange THEN {JsNum(Num(1))}
  ELSE IF c \in CamposCheckbox THEN {JsBool(TRUE), JsBool(FALSE)}
  ELSE IF c = "tipoAporte" THEN {JsStr("constante"), JsStr("anual_real")}
  ELSE {JsStr(""), JsStr("0,04")}

AppEdita ==
  /\ pc \in {"idle", "app"}
  /\ app.passos < MaxPassos
  /\ \E c \in Campos : \E v \in Digitado(c) :
       /\ v # app.campos[c]
       /\ app' = [app EXCEPT !.campos[c] = v, !.passos = @ + 1, !.ultima = "editar"]
  /\ pc' = "app"
  /\ UNCHANGED <<chamada, params, proj, sol, avaliados, retAnterior, ret>>

AppSalvarConfig ==
  /\ pc \in {"idle", "app"}
  /\ app.passos < MaxPassos
  /\ app' = [app EXCEPT !.guardado = salvar(app.campos), !.aoSalvar = app.campos,
                        !.passos = @ + 1, !.ultima = "salvarConfig"]
  /\ pc' = "app"
  /\ UNCHANGED <<chamada, params, proj, sol, avaliados, retAnterior, ret>>

AppLimparConfig ==
  /\ pc \in {"idle", "app"}
  /\ app.passos < MaxPassos
  /\ app' = [app EXCEPT !.guardado = SemItem, !.aoSalvar = SemItem,
                        !.passos = @ + 1, !.ultima = "limparConfig"]
  /\ pc' = "app"
  /\ UNCHANGED <<chamada, params, proj, sol, avaliados, retAnterior, ret>>

\* a mount: useState gives every field its default, then the effect loads
AppMonta ==
  /\ pc \in {"idle", "app"}
  /\ app.passos < MaxPassos
  /\ app' = [app EXCEPT
               !.campos = IF app.guardado = SemItem THEN Padroes
                          ELSE carregar(Padroes, app.guardado),
               !.passos = @ + 1, !.ultima = "montar"]
  /\ pc' = "app"
  /\ UNCHANGED <<chamada, params, proj, sol, avaliados, retAnterior, ret>>

Next ==
  \/ ChamaCalcularProjecao
  \/ ProjMes
  \/ ProjRetorna
  \/ RepeteCalcularProjecao
  \/ ChamaAporteNecessario
  \/ ApDobra
  \/ ApDobraFim
  \/ ApBisecao
  \/ ApRetorna
  \/ ChamaTaxaNecessaria
  \/ TxPasso
  \/ TxBreak
  \/ TxFimLaco
  \/ TxRetorna
  \/ ChamaTaxaNecessariaApp
  \/ TxRetornaApp
  \/ ChamaAporteNoMes
  \/ ChamaInflacaoAnualDoAno
  \/ ChamaInflacaoMensalDoMes
  \/ ChamaParseInflacaoTabela
  \/ AppEdita
  \/ AppSalvarConfig
  \/ AppLimparConfig
  \/ AppMonta

Spec == Init /\ [][Next]_vars

\* a call of a solver runs to its return: the two functions are synchronous
\* and nothing interrupts their loops.  A step of a running solver is a step
\* from one of its positions that moves it to another or changes its locals.
PassoDeSolver ==
  /\ pc \in {"apDobra", "apBis", "txLoop", "txFim"}
  /\ \/ /\ pc' \in {"apDobra", "apBis", "txLoop", "txFim", "done"} \ {pc}
        /\ sol' = sol
     \/ /\ pc' \in {"apDobra", "apBis", "txLoop", "txFim", "done"}
        /\ sol' # sol

SpecJusta == Init /\ [][Next]_vars /\ WF_<<pc, sol>>(PassoDeSolver)

----------------------------------------------------------------------------
(* Properties *)

EmProjecao == chamada = "calcularProjecao"

ProjecaoRetornou == chamada = "calcularProjecao" /\ pc = "done"

\* C1: in calcularProjecao every record m >= 1 has balance
\* (balance of m-1 + contribution of m) * (1 + rate of m) when contributing at
\* the start of the month, and balance of m-1 * (1 + rate of m) + contribution
\* of m when contributing at its end.
C1_OrdemDoAporte ==
  EmProjecao =>
    \A k \in 2..Len(proj.dados) :
      LET anterior == proj.dados[k - 1].saldo
          c == proj.dados[k].aporte
          fator == Add(One, taxaMensalEfetiva(params, k - 1))
      IN  proj.dados[k].saldo =
            IF params.contribuicaoNoInicio
            THEN Mul(Add(anterior, c), fator)
            ELSE Add(Mul(anterior, fator), c)

\* an end-of-month run of two months and more in which the timing matters:
\* the contribution of the second month is recorded without growth
C1_Witness ==
  /\ ProjecaoRetornou
  /\ ~params.contribuicaoNoInicio
  /\ Len(proj.dados) >= 3
  /\ LET anterior == proj.dados[2].saldo
         c == proj.dados[3].aporte
         fator == Add(One, taxaMensalEfetiva(params, 2))
     IN  /\ IsFinite(fator) /\ Gt(c, Zero)
         /\ proj.dados[3].saldo = Add(Mul(anterior, fator), c)
         /\ proj.dados[3].saldo # Mul(Add(anterior, c), fator)

\* the indices 0.. of the records whose balance meets the target
MesesNaMeta == {k \in 0..(Len(proj.dados) - 1) : Geq(proj.dados[k + 1].saldo, params.meta)}

\* C2: mesAlvo is the smallest record index whose balance is >= meta (index 0
\* included), and null exactly when no record has balance >= meta.
C2_PrimeiroMesNaMeta ==
  EmProjecao =>
    IF MesesNaMeta = {} THEN proj.mesAlvo = Null
    ELSE /\ proj.mesAlvo \in MesesNaMeta
         /\ \A k \in MesesNaMeta : proj.mesAlvo <= k

\* the target is first met at month 1 and met again later
C2_Witness ==
  /\ ProjecaoRetornou
  /\ ret.mesAlvo = 1
  /\ \E k \in MesesNaMeta : k > 1

\* floor(anosLimite * 12), from the definition of the floor
PisoMeses(anos) ==
  CHOOSE k \in -13..26 : k * anos[2] <= 12 * anos[1] /\ (k + 1) * anos[2] > 12 * anos[1]

\* C3: calcularProjecao returns exactly N + 1 records, N = max(1,
\* floor(anosLimite * 12)), and record i has mes = i.
C3_TamanhoDaSerie ==
  ProjecaoRetornou =>
    /\ Len(ret.dados) = (IF PisoMeses(params.anosLimite) >= 1
                         THEN PisoMeses(params.anosLimite) ELSE 1) + 1
    /\ \A i \in 0..(Len(ret.dados) - 1) : ret.dados[i + 1].mes = i

\* a horizon that is not positive still gives the seed and one month
C3_Witness ==
  /\ ProjecaoRetornou
  /\ Leq(params.anosLimite, Zero)
  /\ Len(ret.dados) = 2
  /\ ret.dados[2].mes = 1

\* C4: record 0 has balance and cumulative contributions montanteInicial, gains
\* 0 and contribution 0; mesAlvo is 0 exactly when montanteInicial >= meta.
C4_RegistroZero ==
  EmProjecao =>
    /\ proj.dados[1] = [mes |-> 0, saldo |-> params.montanteInicial,
                        contribuicoesAcum |-> params.montanteInicial,
                        ganhosAcum |-> Zero, aporte |-> Zero]
    /\ (proj.mesAlvo = 0) <=> Geq(params.montanteInicial, params.meta)

\* the initial amount equals the target: month 0 is the month reached
C4_Witness ==
  /\ ProjecaoRetornou
  /\ params.montanteInicial = params.meta
  /\ ret.mesAlvo = 0
  /\ Len(ret.dados) >= 2

\* the number of months 12, 24, ... that are <= mes
ReajustesAte(mes) == Cardinality({k \in 1..mes : k % 12 = 0})

\* C5: under anual_pct with rate g, aporteNoMes(m) is base * (1+g)^(number of
\* months 12k <= m): the base in months 1..11, base * (1+g) in months 12..23.
C5_ReajusteAnual ==
  (chamada = "aporteNoMes" /\ ret.politica.tipo = "anual_pct") =>
    LET g == ret.politica.anualPct
    IN  /\ ret.valor = Mul(ret.base, Pow(Add(One, g), ReajustesAte(ret.mes)))
        /\ ret.mes <= 11 => ret.valor = ret.base
        /\ ret.mes \in 12..23 => ret.valor = Mul(ret.base, Add(One, g))
        /\ ret.mes \in 24..35 => ret.valor = Mul(Mul(ret.base, Add(One, g)), Add(One, g))

\* month 12 pays the first step-up
C5_Witness ==
  /\ chamada = "aporteNoMes"
  /\ ret.politica = AnualPct(Frac(1, 10))
  /\ ret.mes = 12
  /\ ret.base = Num(3)
  /\ ret.valor = Frac(33, 10)

\* C6: inflacaoAnualDoAno(y) is the default rate without a schedule or with an
\* empty one, schedule[y-1] when y <= its length, its last element beyond.
C6_InflacaoDoAno ==
  chamada = "inflacaoAnualDoAno" =>
    LET t == ret.tabela
        y == ret.anoIndex
    IN  ret.valor = IF ~t.def THEN ret.inflacaoPadrao
                    ELSE IF t.v = <<>> THEN ret.inflacaoPadrao
                    ELSE IF y <= Len(t.v) THEN t.v[y]
                    ELSE t.v[Len(t.v)]

\* a year beyond the schedule takes its last entry, not the default
C6_Witness ==
  /\ chamada = "inflacaoAnualDoAno"
  /\ ret.tabela.def
  /\ Len(ret.tabela.v) >= 2
  /\ ret.anoIndex > Len(ret.tabela.v)
  /\ ret.valor = ret.tabela.v[Len(ret.tabela.v)]
  /\ ret.valor # ret.inflacaoPadrao

\* the floor the rates are said to be kept above
PisoDaTaxa == Frac(-99, 100)

\* C7: every rate the month loop of calcularProjecao uses has been floored at
\* -0.99, so the multiplier 1 + rate applied to the balance in every month is
\* strictly positive.
C7_TaxasComPiso ==
  (EmProjecao /\ proj.m >= 1) =>
    /\ Geq(params.rentabAnual, PisoDaTaxa)
    /\ Geq(params.inflacaoAnual, PisoDaTaxa)
    /\ Gt(Add(One, taxaMensalEfetiva(params, proj.m)), Zero)

EmAporteNecessario == chamada = "aporteNecessario"

\* one step of aporteNecessario keeps the bracket: 0 <= lo <= hi, hi does not
\* increase and lo does not decrease in the bisection, a sufficient hi stays
\* sufficient, and the value returned is hi
C8_Passo ==
  /\ (chamada' = "aporteNecessario" /\ pc' = "apBis") =>
       (Leq(Zero, sol'.lo) /\ Leq(sol'.lo, sol'.hi))
  /\ (EmAporteNecessario /\ pc = "apBis") =>
       /\ Leq(sol'.hi, sol.hi)
       /\ Leq(sol.lo, sol'.lo)
       /\ atingeMetaComAporte(params, sol.hi) => atingeMetaComAporte(params, sol'.hi)
       /\ pc' = "done" => ret' = sol.hi

\* C8: when the doubling of aporteNecessario ends on a sufficient bound the
\* value returned is sufficient too; throughout the bisection 0 <= lo <= hi,
\* hi never increases, lo never decreases, and the final hi is returned.
C8_BisecaoDoAporte == [][C8_Passo]_vars

\* a run that doubled, then moved both ends, and returns a sufficient value
C8_Witness ==
  /\ EmAporteNecessario
  /\ pc = "done"
  /\ sol.safety >= 1
  /\ Gt(sol.lo, Zero)
  /\ Lt(sol.hi, Mul(Max(Num(HiMinimo), Div(params.meta, Num(nMeses(params)))),
                    Pow(Num(2), sol.safety)))
  /\ ret = sol.hi
  /\ atingeMetaComAporte(params, ret)
  /\ ~atingeMetaComAporte(params, sol.lo)

EmTaxaNecessaria == chamada = "taxaNecessaria"

\* the positions of the evaluated candidates whose balance is >= meta
Qualificados == {k \in 1..Len(avaliados) : Geq(avaliados[k].sf, params.meta)}

QualificadosFinitos == {k \in Qualificados : IsFinite(avaliados[k].sf)}

Ultimo(S) == CHOOSE k \in S : \A j \in S : j <= k

\* C9 as stated: taxaNecessaria returns null exactly when none of the
\* midpoints it evaluated has a final balance >= meta.
C9_NullSemQualificado ==
  (EmTaxaNecessaria /\ pc = "done") => (ret = NullNum <=> Qualificados = {})

\* C9, amended: taxaNecessaria returns null exactly when none of the midpoints
\* it evaluated has a finite final balance >= meta; otherwise the result is
\* converted from the last such midpoint, which is the upper end hi of the
\* final bracket; -0.9 <= lo <= hi <= 1.0 at every iteration.
C9_NullSemQualificadoFinito ==
  EmTaxaNecessaria =>
    /\ Leq(Frac(-9, 10), sol.lo) /\ Leq(sol.lo, sol.hi) /\ Leq(sol.hi, One)
    /\ sol.found = NullNum <=> QualificadosFinitos = {}
    /\ sol.found # NullNum =>
         /\ sol.found = avaliados[Ultimo(QualificadosFinitos)].mid
         /\ sol.found = sol.hi
    /\ pc = "done" =>
         /\ ret = NullNum <=> QualificadosFinitos = {}
         /\ ret # NullNum => ret = toAnualNominal(params, sol.hi)

\* a search that returns a rate after a candidate that qualified and a later
\* one that did not
C9_Witness ==
  /\ EmTaxaNecessaria
  /\ pc = "done"
  /\ ret # NullNum
  /\ QualificadosFinitos # {}
  /\ Ultimo(QualificadosFinitos) < Len(avaliados)
  /\ Gt(sol.lo, Frac(-9, 10))
  /\ ret = toAnualNominal(params, sol.hi)

\* the positions of the evaluated candidates whose balance is not finite
NaoFinitos == {k \in 1..Len(avaliados) : ~IsFinite(avaliados[k].sf)}

\* C10 as stated: after a candidate with a non-finite balance the remaining
\* iterations still run, so every call evaluates a candidate in each of them.
C10_IteracoesRestantes ==
  (EmTaxaNecessaria /\ pc = "done") => Len(avaliados) = MaxIterTaxa

\* C10, amended: a candidate whose final balance is non-finite ends the search
\* loop of taxaNecessaria: it is the last candidate evaluated, the bracket and
\* found keep the values they had before it, and the call returns null or the
\* rate of the candidate found before it, raising no error.
C10_NaoFinitoEncerra ==
  EmTaxaNecessaria =>
    /\ \A k \in NaoFinitos :
         /\ k = Len(avaliados)
         /\ pc \in {"txFim", "done"}
         /\ sol.i = k - 1
    /\ pc = "done" =>
         ret = IF sol.found = NullNum THEN NullNum
               ELSE toAnualNominal(params, sol.found)

\* a call that returned after a non-finite candidate with iterations left
C10_Witness ==
  /\ EmTaxaNecessaria
  /\ pc = "done"
  /\ NaoFinitos # {}
  /\ Len(avaliados) < MaxIterTaxa
  /\ sol.i < MaxIterTaxa
  /\ ret = NullNum

\* C11: a call of calcularProjecao made again with the parameters of the call
\* before it returns what that call returned: the same series record by
\* record, the same mesAlvo, the same monthly nominal rate and the same average
\* monthly inflation, whatever the earlier call left in the locals.
Repetida == ProjecaoRetornou /\ retAnterior # NullNum

C11_ChamadaRepetida ==
  Repetida =>
    /\ Len(ret.dados) = Len(retAnterior.dados)
    /\ \A k \in 1..Len(ret.dados) : ret.dados[k] = retAnterior.dados[k]
    /\ ret.mesAlvo = retAnterior.mesAlvo
    /\ ret.taxaMensalNominalConst = retAnterior.taxaMensalNominalConst
    /\ ret.taxaMensalInflacaoMedia = retAnterior.taxaMensalInflacaoMedia

\* a repeated call whose first run left a non-zero inflation sum and a reached
\* target behind
C11_Witness ==
  /\ Repetida
  /\ ret.mesAlvo # Null
  /\ Len(ret.dados) >= 3
  /\ IsFinite(ret.taxaMensalInflacaoMedia)
  /\ ret.taxaMensalInflacaoMedia # Zero


\* C12: with rentabAnual = 0 and usarTaxaReal = false, for either timing the
\* balance of every record equals its cumulative contributions and its gains
\* are 0; a constant contribution A from initial amount 0 gives balance n * A
\* after n months, and a target of k * A (A > 0, k within the horizon) is
\* reached at month k.
SemJuros == ProjecaoRetornou /\ params.rentabAnual = Zero /\ ~params.usarTaxaReal

AporteConstanteDoZero ==
  /\ SemJuros
  /\ params.politicaAporte.tipo = "constante"
  /\ params.montanteInicial = Zero

C12_SemJuros ==
  /\ SemJuros =>
       \A k \in 1..Len(ret.dados) :
         /\ ret.dados[k].saldo = ret.dados[k].contribuicoesAcum
         /\ ret.dados[k].ganhosAcum = Zero
  /\ AporteConstanteDoZero =>
       \A n \in 0..(Len(ret.dados) - 1) :
         /\ ret.dados[n + 1].saldo = Mul(Num(n), params.aporteMensal)
         /\ (/\ n >= 1
             /\ Gt(params.aporteMensal, Zero)
             /\ params.meta = Mul(Num(n), params.aporteMensal)) => ret.mesAlvo = n

\* a zero-rate run of three months with A = 1 whose target 2 = 2 * A is
\* reached at month 2, while inflation is not zero
C12_Witness ==
  /\ AporteConstanteDoZero
  /\ params.inflacaoAnual = Num(4095)
  /\ params.aporteMensal = One
  /\ params.meta = Num(2)
  /\ Len(ret.dados) = 4
  /\ ret.mesAlvo = 2
  /\ ret.dados[4].saldo = Num(3)


\* C13: under anual_real with extra rate e the contribution of month m is
\* base * product over k = 1..floor(m/12) of (1 + inflation of year k) * (1 + e),
\* the inflation of year k being the schedule's entry k, its last entry beyond
\* the schedule, or the default rate without a usable schedule; anual_inflacao
\* is the same product with e = 0. With the schedule [10%, 0%] the contribution
\* is base up to month 11 and 1.10 * base from month 12 to month 24 and
\* beyond; with 5% inflation and e = 2% it is 1.071 * base at month 12.
AporteChamado == chamada = "aporteNoMes" /\ pc = "done"

InflacaoDoAnoK(k, padrao, tabela) ==
  IF ~tabela.def \/ Len(tabela.v) = 0 THEN padrao
  ELSE IF k <= Len(tabela.v) THEN tabela.v[k]
  ELSE tabela.v[Len(tabela.v)]

\* the product written out for the zero, one and two full years the model's
\* months cover
ProdutoAnual(m, e, padrao, tabela) ==
  LET f(k) == Mul(Add(One, InflacaoDoAnoK(k, padrao, tabela)), Add(One, e))
  IN  IF m < 12 THEN One
      ELSE IF m < 24 THEN f(1)
      ELSE Mul(f(1), f(2))

C13_ReajustePelaInflacao ==
  AporteChamado =>
    /\ ret.politica.tipo = "anual_real" =>
         ret.valor = Mul(ret.base, ProdutoAnual(ret.mes, ret.politica.realExtra,
                                                ret.inflacaoAnual, ret.inflacaoTabela))
    /\ ret.politica.tipo = "anual_inflacao" =>
         ret.valor = Mul(ret.base, ProdutoAnual(ret.mes, Zero,
                                                ret.inflacaoAnual, ret.inflacaoTabela))
    /\ (/\ ret.politica.tipo = "anual_inflacao"
        /\ ret.inflacaoTabela = Tab(<<Frac(1, 10), Zero>>)) =>
         ret.valor = IF ret.mes <= 11 THEN ret.base
                     ELSE Mul(Frac(11, 10), ret.base)
    /\ (/\ ret.politica = AnualReal(Frac(1, 50))
        /\ ret.inflacaoAnual = Frac(1, 20)
        /\ ~ret.inflacaoTabela.def
        /\ ret.mes = 12) =>
         ret.valor = Mul(Frac(1071, 1000), ret.base)

\* 5% inflation and 2% extra at month 12: 1.071 * 3
C13_Witness ==
  /\ AporteChamado
  /\ ret.politica = AnualReal(Frac(1, 50))
  /\ ret.inflacaoAnual = Frac(1, 20)
  /\ ~ret.inflacaoTabela.def
  /\ ret.mes = 12
  /\ ret.base = Num(3)
  /\ ret.valor = Frac(3213, 1000)


\* C14: under mensal_pct with rate g the contribution of month m >= 1 is
\* base * (1 + g)^(m - 1), exactly base in month 1; under constante it is base
\* in every month; with zero return rate, end-of-month timing and initial
\* amount 0 the balance after n months under mensal_pct is
\* base * ((1 + g)^n - 1) / g.
RECURSIVE Potencia(_, _)
Potencia(x, k) == IF k = 0 THEN One ELSE Mul(x, Potencia(x, k - 1))

SomaGeometricaNoFim ==
  /\ SemJuros
  /\ ~params.contribuicaoNoInicio
  /\ params.montanteInicial = Zero
  /\ params.politicaAporte.tipo = "mensal_pct"

C14_CrescimentoMensal ==
  /\ AporteChamado =>
       /\ ret.politica.tipo = "mensal_pct" =>
            /\ ret.valor = Mul(ret.base,
                               Potencia(Add(One, ret.politica.mensalPct), ret.mes - 1))
            /\ ret.mes = 1 => ret.valor = ret.base
       /\ ret.politica.tipo = "constante" => ret.valor = ret.base
  /\ SomaGeometricaNoFim =>
       LET g == params.politicaAporte.mensalPct
       IN  \A n \in 1..(Len(ret.dados) - 1) :
             ret.dados[n + 1].saldo =
               Div(Mul(params.aporteMensal, Sub(Potencia(Add(One, g), n), One)), g)

\* month 3 at g = -1/2 pays base / 4
C14_Witness ==
  /\ AporteChamado
  /\ ret.politica = MensalPct(Frac(-1, 2))
  /\ ret.mes = 3
  /\ ret.base = One
  /\ ret.valor = Frac(1, 4)

\* three months at g = -1/2 from 0, paid at the end: 1 + 1/2 + 1/4
C14_WitnessSoma ==
  /\ SomaGeometricaNoFim
  /\ params.aporteMensal = One
  /\ Len(ret.dados) = 4
  /\ ret.dados[4].saldo = Frac(7, 4)


\* C15: inflacaoMensalDoMes resolves month m >= 1 to year ceil(m/12): the
\* months 12k+1..12k+12 all return the monthly equivalent of the annual
\* inflation of year k+1 (month 12 belongs to year 1, month 13 to year 2), so
\* the value is constant inside each block and changes only between month
\* 12k and month 12k+1.
InflacaoMensalChamada == chamada = "inflacaoMensalDoMes" /\ pc = "done"

MensalDoAno(k, padrao, tabela) ==
  Sub(Root12(Add(One, InflacaoDoAnoK(k, padrao, tabela))), One)

C15_AnoDoMes ==
  InflacaoMensalChamada =>
    /\ \A k \in 0..MaxMes :
         (12 * k + 1 <= ret.mes /\ ret.mes <= 12 * k + 12) =>
           ret.valor = MensalDoAno(k + 1, ret.inflacaoPadrao, ret.tabela)
    /\ ret.mes = 12 => ret.valor = MensalDoAno(1, ret.inflacaoPadrao, ret.tabela)
    /\ ret.mes = 13 => ret.valor = MensalDoAno(2, ret.inflacaoPadrao, ret.tabela)

\* month 12 of the schedule [4095, 0] still has the monthly rate of year 1,
\* 4096^(1/12) - 1 = 1
C15_Witness ==
  /\ InflacaoMensalChamada
  /\ ret.tabela = Tab(<<Num(4095), Zero>>)
  /\ ret.mes = 12
  /\ ret.valor = One


\* C16: with usarTaxaReal = true, zero contribution, and the nominal annual
\* rate equal to the inflation rate of every year of the horizon, the
\* effective monthly rate is 0 in every month and the balance of every record
\* equals montanteInicial.
InflacaoIgualATaxa ==
  /\ ProjecaoRetornou
  /\ params.usarTaxaReal
  /\ params.aporteMensal = Zero
  /\ \A m \in 1..(Len(ret.dados) - 1) :
       \A k \in 1..MaxMes :
         (12 * (k - 1) + 1 <= m /\ m <= 12 * k) =>
           InflacaoDoAnoK(k, params.inflacaoAnual, params.inflacaoTabela)
             = params.rentabAnual

TaxaZeroESaldoParado ==
  /\ \A m \in 1..(Len(ret.dados) - 1) : taxaMensalEfetiva(params, m) = Zero
  /\ \A k \in 1..Len(ret.dados) : ret.dados[k].saldo = params.montanteInicial

C16_NeutralidadeReal == InflacaoIgualATaxa => TaxaZeroESaldoParado

\* the same statement for rates above -1, the only ones left had the rates
\* been floored at -0.99
C16_NeutralidadeAcimaDoPiso ==
  (InflacaoIgualATaxa /\ Gt(params.rentabAnual, Num(-1))) => TaxaZeroESaldoParado

\* thirteen months at a nominal rate of 4095 against a flat schedule of 4095
C16_Witness ==
  /\ InflacaoIgualATaxa
  /\ params.rentabAnual = Num(4095)
  /\ params.inflacaoTabela = Tab(<<Num(4095), Num(4095)>>)
  /\ Len(ret.dados) = 14
  /\ ret.dados[14].saldo = Num(2)


\* C17: with usarTaxaReal = false and a policy that is constante, mensal_pct
\* or anual_pct, the series and mesAlvo returned by calcularProjecao are those
\* of the same call made with any other default inflation rate and any other
\* inflation schedule; only the reported average monthly inflation follows the
\* inflation inputs.
NominalSemIndexacao ==
  /\ ProjecaoRetornou
  /\ ~params.usarTaxaReal
  /\ params.politicaAporte.tipo \in {"constante", "mensal_pct", "anual_pct"}

OutrasInflacoes == {Zero, Num(4095)}

OutrasTabelas == {Undefined, Tab(<<Zero, Num(4095)>>)}

SerieEAlvo(r) == <<r.dados, r.mesAlvo>>

ComOutraInflacao(ia, tab) ==
  calcularProjecao([params EXCEPT !.inflacaoAnual = ia, !.inflacaoTabela = tab])

C17_InflacaoNaoInflui ==
  NominalSemIndexacao =>
    \A ia \in OutrasInflacoes, tab \in OutrasTabelas :
      SerieEAlvo(ComOutraInflacao(ia, tab)) = SerieEAlvo(ret)

\* a run at a non-zero rate whose average inflation differs from that of the
\* same run without inflation, the series being the same
C17_Witness ==
  /\ NominalSemIndexacao
  /\ params.rentabAnual = Num(4095)
  /\ params.inflacaoAnual = Num(4095)
  /\ Len(ret.dados) = 4
  /\ ret.mesAlvo # Null
  /\ ret.taxaMensalInflacaoMedia
       # ComOutraInflacao(Zero, Undefined).taxaMensalInflacaoMedia
  /\ ret.dados = ComOutraInflacao(Zero, Undefined).dados


\* C18: with zero return rate, zero initial amount, the constante policy and
\* nominal mode, aporteNecessario for a target T > 0 over n whole months
\* returns A with A >= T/n, and A exceeds T/n by no more than the first upper
\* bound max(100, T/n) halved once per bisection step: with the 80 steps of
\* the code that is below 1e-6 * max(1, T/n).
AporteRetornou == chamada = "aporteNecessario" /\ pc = "done"

MesesInteiros(p) == Mul(p.anosLimite, Num(12)) = Num(nMeses(p))

DivisaoSimples ==
  /\ AporteRetornou
  /\ params.rentabAnual = Zero
  /\ params.montanteInicial = Zero
  /\ params.politicaAporte.tipo = "constante"
  /\ ~params.usarTaxaReal
  /\ Gt(params.meta, Zero)
  /\ MesesInteiros(params)

RECURSIVE DoisElevado(_)
DoisElevado(k) == IF k = 0 THEN 1 ELSE 2 * DoisElevado(k - 1)

C18_AporteTaxaZero ==
  DivisaoSimples =>
    LET TporN == Div(params.meta, Num(nMeses(params)))
    IN  /\ IsFinite(ret)
        /\ Geq(ret, TporN)
        /\ Leq(Mul(Sub(ret, TporN), Num(DoisElevado(MaxBisecao))),
               Max(Num(HiMinimo), TporN))

\* target 30 in one month: the bisection from 100 stops above 30, not on it
C18_Witness ==
  /\ DivisaoSimples
  /\ params.meta = Num(30)
  /\ nMeses(params) = 1
  /\ Gt(ret, Num(30))
  /\ Lt(ret, Num(37))

\* the test's case scaled to one year: target 1200 over 12 months gives 100
C18_WitnessCem ==
  /\ DivisaoSimples
  /\ params.meta = Num(1200)
  /\ nMeses(params) = 12
  /\ ret = Num(100)


\* C19 as stated: with zero initial amount, the constante policy, nominal
\* mode and a target equal to contribution * number of months, taxaNecessaria
\* returns a non-null annual rate next to 0: the monthly rate it converts is
\* the upper end of a bracket that holds 0 and is halved once per pass
\* (1.9 / 2^160 at the code's 160 passes, an annual rate far below 1e-4).
TaxaRetornou == EmTaxaNecessaria /\ pc = "done"

NoEquilibrio ==
  /\ TaxaRetornou
  /\ params.montanteInicial = Zero
  /\ params.politicaAporte.tipo = "constante"
  /\ ~params.usarTaxaReal
  /\ params.meta = Mul(params.aporteMensal, Num(nMeses(params)))

TaxaJuntoDeZero ==
  /\ ret # NullNum
  /\ ret = Anual(Add(One, sol.hi), One)
  /\ Lt(sol.lo, Zero)
  /\ Geq(sol.hi, Zero)
  /\ Leq(Mul(sol.hi, Num(DoisElevado(MaxIterTaxa))), Frac(19, 10))

C19_TaxaNoEquilibrio == NoEquilibrio => TaxaJuntoDeZero

\* C19 amended: the same with a contribution above 0 and either
\* start-of-month timing or a horizon of at least two months.
C19_TaxaNoEquilibrioComAporte ==
  (/\ NoEquilibrio
   /\ Gt(params.aporteMensal, Zero)
   /\ (params.contribuicaoNoInicio \/ nMeses(params) >= 2)) => TaxaJuntoDeZero

\* two months of 1 paid at the end against a target of 2
C19_Witness ==
  /\ NoEquilibrio
  /\ params.aporteMensal = One
  /\ ~params.contribuicaoNoInicio
  /\ nMeses(params) = 2
  /\ sol.i = MaxIterTaxa
  /\ Gt(sol.hi, Zero)
  /\ ret = Anual(Add(One, sol.hi), One)

\* one month of 1 paid at the end against a target of 1: every candidate
\* qualifies and the rate returned is the lowest one tried
C19_WitnessUmMes ==
  /\ NoEquilibrio
  /\ params.aporteMensal = One
  /\ ~params.contribuicaoNoInicio
  /\ nMeses(params) = 1
  /\ ret # NullNum
  /\ Lt(sol.hi, Frac(-3, 4))

\* nothing contributed against a target of 0
C19_WitnessSemAporte ==
  /\ NoEquilibrio
  /\ params.aporteMensal = Zero
  /\ params.contribuicaoNoInicio
  /\ ret # NullNum
  /\ Lt(sol.hi, Frac(-3, 4))


\* C20: when taxaNecessaria finds a monthly rate r it returns (1 + r)^12 - 1
\* if usarTaxaReal is false and (1 + r)^12 * (1 + avg) - 1 if it is true, avg
\* being the arithmetic mean of all schedule entries when a non-empty schedule
\* is supplied and the default annual inflation otherwise.
MediaAritmetica(p) ==
  IF p.inflacaoTabela.def /\ Len(p.inflacaoTabela.v) > 0
  THEN Div(Soma(p.inflacaoTabela.v), Num(Len(p.inflacaoTabela.v)))
  ELSE p.inflacaoAnual

AnualEsperada ==
  IF ~params.usarTaxaReal
  THEN Anual(Add(One, sol.found), One)
  ELSE Anual(Add(One, sol.found), Add(One, MediaAritmetica(params)))

AchouTaxa ==
  /\ chamada \in {"taxaNecessaria", "taxaNecessaria (part_000)"}
  /\ pc = "done"
  /\ sol.found # NullNum

C20_ConversaoAnual == AchouTaxa => ret = AnualEsperada

\* the same for taxaNecessaria of lib/calculos.ts alone
C20_ConversaoAnualCalculos ==
  (AchouTaxa /\ chamada = "taxaNecessaria") => ret = AnualEsperada

\* real mode with the schedule [0, 4095]: lib/calculos.ts compounds with the
\* mean 4095/2
C20_Witness ==
  /\ AchouTaxa
  /\ chamada = "taxaNecessaria"
  /\ params.usarTaxaReal
  /\ params.inflacaoTabela = Tab(<<Zero, Num(4095)>>)
  /\ ret.fator = Frac(4097, 2)

\* the single-file copy compounds the same call with the first entry, 0
C20_WitnessApp ==
  /\ AchouTaxa
  /\ chamada = "taxaNecessaria (part_000)"
  /\ params.usarTaxaReal
  /\ params.inflacaoTabela = Tab(<<Zero, Num(4095)>>)
  /\ ret.fator = One


\* C21: parseInflacaoTabela returns, in input order, exactly one value per
\* numeric token of the text: tokens are separated by commas, semicolons,
\* whitespace or newlines, a percent sign is stripped, a token written with a
\* decimal comma (such as 0,04) yields the single value 0.04, a non-numeric
\* token contributes no value, and every returned value is >= -0.99.
ParseChamado == chamada = "parseInflacaoTabela" /\ pc = "done"

\* a comma between two digits is a decimal comma, any other comma separates
VirgulaDecimal(str, k) ==
  /\ str[k] = ","
  /\ k > 1 /\ k < Len(str)
  /\ str[k - 1] \in Digitos
  /\ str[k + 1] \in Digitos

Separa(str, k) == str[k] \in Separadores /\ ~VirgulaDecimal(str, k)

RECURSIVE Fichas(_, _, _)
Fichas(str, k, atual) ==
  IF k > Len(str)
  THEN IF atual = <<>> THEN <<>> ELSE <<atual>>
  ELSE IF Separa(str, k)
       THEN (IF atual = <<>> THEN <<>> ELSE <<atual>>) \o Fichas(str, k + 1, <<>>)
       ELSE Fichas(str, k + 1, Append(atual, str[k]))

\* the decimal number a token denotes, NaN for a token that is not numeric
\* (a token with no digit, such as a lone percent sign, is not numeric)
ValorDaFicha(t) ==
  IF semPercent(t) = <<>> THEN NaN
  ELSE NumberDe(trocaVirgula(semPercent(t)))

RECURSIVE ValoresDasFichas(_)
ValoresDasFichas(ts) ==
  IF ts = <<>> THEN <<>>
  ELSE LET v == ValorDaFicha(Head(ts))
       IN  (IF IsFinite(v) THEN <<Max(Frac(-99, 100), v)>> ELSE <<>>)
             \o ValoresDasFichas(Tail(ts))

Esperados(str) == ValoresDasFichas(Fichas(str, 1, <<>>))

C21_UmValorPorFicha ==
  ParseChamado =>
    /\ ret.valor = Esperados(ret.str)
    /\ ret.str = <<"0", ",", "0", "4">> => ret.valor = <<Frac(1, 25)>>
    /\ \A k \in 1..Len(ret.valor) : Geq(ret.valor[k], Frac(-99, 100))

\* the same for the texts with no decimal comma and no token made of percent
\* signs only
TextoSimples(str) ==
  /\ \A k \in 1..Len(str) : ~VirgulaDecimal(str, k)
  /\ \A j \in 1..Len(partes(str, 1, <<>>)) : semPercent(partes(str, 1, <<>>)[j]) # <<>>

C21_TextoSimples ==
  (ParseChamado /\ TextoSimples(ret.str)) =>
    /\ ret.valor = Esperados(ret.str)
    /\ \A k \in 1..Len(ret.valor) : Geq(ret.valor[k], Frac(-99, 100))

\* "-4 4": two tokens in order, the first floored
C21_Witness ==
  /\ ParseChamado
  /\ ret.str = <<"-", "4", " ", "4">>
  /\ ret.valor = <<Frac(-99, 100), Num(4)>>

\* "0,04" is split at the comma into 0 and 04
C21_WitnessVirgula ==
  /\ ParseChamado
  /\ ret.str = <<"0", ",", "0", "4">>
  /\ ret.valor = <<Zero, Num(4)>>

\* a lone percent sign is Number("") = 0
C21_WitnessPercent ==
  /\ ParseChamado
  /\ ret.str = <<"%">>
  /\ ret.valor = <<Zero>>


\* C22: a mount-time load after a save restores every one of the 15 saved
\* fields to the value it had when saved, whatever edits happened in
\* between; after limparConfig a load finds no snapshot and leaves all fields
\* at their defaults; saving and clearing never change the fields in memory.
C22_Carregado ==
  (pc = "app" /\ app.ultima = "montar") =>
    /\ app.aoSalvar # SemItem => \A c \in Campos : app.campos[c] = app.aoSalvar[c]
    /\ app.aoSalvar = SemItem => app.campos = Padroes

C22_Passo ==
  (app'.passos = app.passos + 1 /\ app'.ultima \in {"salvarConfig", "limparConfig"})
    => app'.campos = app.campos

C22_SalvarNaoAltera == [][C22_Passo]_vars

C22_SalvarECarregar == []C22_Carregado /\ C22_SalvarNaoAltera

\* a 0 typed into the target, saved, overwritten by another edit, then
\* restored by the mount
C22_Witness ==
  /\ pc = "app"
  /\ app.ultima = "montar"
  /\ app.passos = 4
  /\ app.aoSalvar # SemItem
  /\ app.campos.meta = JsNum(Zero)
  /\ app.campos = app.aoSalvar


\* C23: in every record of a calcularProjecao series gains = balance -
\* cumulative contributions, and the cumulative contributions of record m are
\* those of record m-1 plus the contribution of record m, record 0 holding
\* montanteInicial, for both contribution timings and every rate.
C23_GanhosEAportes ==
  EmProjecao =>
    /\ proj.dados[1].contribuicoesAcum = params.montanteInicial
    /\ \A k \in 1..Len(proj.dados) :
         proj.dados[k].ganhosAcum
           = Sub(proj.dados[k].saldo, proj.dados[k].contribuicoesAcum)
    /\ \A k \in 2..Len(proj.dados) :
         proj.dados[k].contribuicoesAcum
           = Add(proj.dados[k - 1].contribuicoesAcum, proj.dados[k].aporte)

\* three months paid at the end at a rate above 0 with gains above 0
C23_Witness ==
  /\ EmProjecao
  /\ ~params.contribuicaoNoInicio
  /\ params.rentabAnual = Num(4095)
  /\ Len(proj.dados) = 4
  /\ proj.dados[4].contribuicoesAcum = Num(5)
  /\ Gt(proj.dados[4].ganhosAcum, Zero)


\* C24: calcularProjecao, aporteNecessario and taxaNecessaria leave their
\* inputs unchanged: from the call to the return the parameter values, the
\* contribution policy and the inflation schedule are the same; a record
\* appended to the series is never altered by a later month, and the series
\* returned is the series built.
EmChamada == pc \in {"projLoop", "apDobra", "apBis", "txLoop", "txFim"}

C24_Passo ==
  /\ EmChamada => params' = params
  /\ pc = "projLoop" =>
       /\ Len(proj'.dados) >= Len(proj.dados)
       /\ \A k \in 1..Len(proj.dados) : proj'.dados[k] = proj.dados[k]
       /\ pc' = "done" => ret'.dados = proj.dados

C24_EntradasIntactas == [][C24_Passo]_vars

\* the third month of a run with a schedule and a growing contribution
C24_Witness ==
  /\ pc = "projLoop"
  /\ Len(proj.dados) = 4
  /\ params.inflacaoTabela = Tab(<<Num(4095)>>)
  /\ params.politicaAporte = MensalPct(Frac(-1, 2))
  /\ proj.dados[2].aporte # proj.dados[4].aporte


\* C25: for every parameter set, horizon anos > 0 and monthly nominal rate
\* r > -1, the final balance of taxaNecessaria's inline loop
\* (saldoFinalComTaxa) is the balance of the record at the horizon month of
\* calcularProjecao run with the same parameters, anosLimite = anos and a
\* monthly nominal rate of r: same number of months, same contribution
\* order, same real-rate adjustment.
TaxaMensalValida ==
  /\ ProjecaoRetornou
  /\ Gt(params.anosLimite, Zero)
  /\ IsFinite(ret.taxaMensalNominalConst)
  /\ Gt(ret.taxaMensalNominalConst, Num(-1))

LacoIgualAProjecao ==
  /\ Len(ret.dados) = nMeses(params) + 1
  /\ ret.dados[Len(ret.dados)].saldo
       = saldoFinalComTaxa(params, ret.taxaMensalNominalConst)

C25_LacoEquivalente == TaxaMensalValida => LacoIgualAProjecao

\* the same for the horizons on which round and floor of anos * 12 agree
C25_MesesIguais ==
  (TaxaMensalValida /\ nMeses(params) = mesesLimite(params)) => LacoIgualAProjecao

\* thirteen months in real mode against a falling schedule
C25_Witness ==
  /\ TaxaMensalValida
  /\ params.usarTaxaReal
  /\ params.inflacaoTabela = Tab(<<Num(4095), Zero>>)
  /\ params.rentabAnual = Num(4095)
  /\ nMeses(params) = 13
  /\ LacoIgualAProjecao

\* a horizon of a month and a half: the projection has one month, the inline
\* loop runs two
C25_WitnessMesEMeio ==
  /\ TaxaMensalValida
  /\ params.anosLimite = Frac(1, 8)
  /\ Len(ret.dados) = 2
  /\ nMeses(params) = 2
  /\ params.aporteMensal = One
  /\ ret.dados[2].saldo # saldoFinalComTaxa(params, ret.taxaMensalNominalConst)


\* C26: atingeMetaComAporte(A) is true exactly when the simulator run with
\* base contribution A has a non-null mesAlvo no later than the horizon month
\* count, or its balance at the record whose index is the horizon month count
\* (the last record of the series when that index is past its end) is at
\* least meta.
AlcancaNoHorizonte(r, n, meta) ==
  \/ r.mesAlvo # Null /\ r.mesAlvo <= n
  \/ Geq(r.dados[IF n + 1 <= Len(r.dados) THEN n + 1 ELSE Len(r.dados)].saldo,
         meta)

EmAporte == chamada = "aporteNecessario" /\ pc \in {"apDobra", "apBis"}

\* the contribution the solver tries next
Candidato == IF pc = "apDobra" THEN sol.hi ELSE Media(sol.lo, sol.hi)

C26_AtingeMeta ==
  /\ ProjecaoRetornou =>
       (atingeMetaComAporte(params, params.aporteMensal)
          <=> AlcancaNoHorizonte(ret, nMeses(params), params.meta))
  /\ EmAporte =>
       (atingeMetaComAporte(params, Candidato)
          <=> AlcancaNoHorizonte(
                calcularProjecao([params EXCEPT !.aporteMensal = Candidato]),
                nMeses(params), params.meta))

\* the target is met on the way and lost again by the horizon
C26_Witness ==
  /\ ProjecaoRetornou
  /\ ret.mesAlvo # Null
  /\ ret.mesAlvo < nMeses(params)
  /\ ~Geq(ret.dados[Len(ret.dados)].saldo, params.meta)
  /\ atingeMetaComAporte(params, params.aporteMensal)

\* the horizon month is past the end of the series
C26_WitnessUltimo ==
  /\ EmAporte
  /\ nMeses(params) > mesesLimite(params)
  /\ atingeMetaComAporte(params, Candidato)
  /\ sol.i > 0

\* the candidate falls short
C26_WitnessNaoAtinge ==
  /\ EmAporte
  /\ ~atingeMetaComAporte(params, Candidato)
  /\ sol.i > 0


\* C27: when all rates are above -1 (every growth multiplier of balance and
\* of contribution is positive), atingeMetaComAporte is monotone in the base
\* contribution: for all A1 <= A2, if A1 reaches the target within the
\* horizon then A2 does too, and the balance of every month with A2 is at
\* least the balance of that month with A1.
TaxasAcimaDeMenosUm(p) ==
  /\ Gt(p.rentabAnual, Num(-1))
  /\ Gt(p.inflacaoAnual, Num(-1))
  /\ p.inflacaoTabela.def =>
       \A k \in 1..Len(p.inflacaoTabela.v) : Gt(p.inflacaoTabela.v[k], Num(-1))
  /\ p.politicaAporte.tipo = "mensal_pct" => Gt(p.politicaAporte.mensalPct, Num(-1))
  /\ p.politicaAporte.tipo = "anual_pct" => Gt(p.politicaAporte.anualPct, Num(-1))
  /\ p.politicaAporte.tipo = "anual_real" => Gt(p.politicaAporte.realExtra, Num(-1))

SaldosNaoMenores(r1, r2) ==
  /\ Len(r1.dados) = Len(r2.dados)
  /\ \A k \in 1..Len(r1.dados) : Leq(r1.dados[k].saldo, r2.dados[k].saldo)

Monotono(p, A1, A2) ==
  /\ atingeMetaComAporte(p, A1) => atingeMetaComAporte(p, A2)
  /\ SaldosNaoMenores(calcularProjecao([p EXCEPT !.aporteMensal = A1]),
                      calcularProjecao([p EXCEPT !.aporteMensal = A2]))

\* the calls compared with a contribution one unit larger (a year of
\* compounding at 300% or -75% a month with a contribution added leaves the
\* integers of the model)
ComAporteMaior == params \in ProjCurto \cup ProjLongo

C27_Monotono ==
  /\ (EmAporte /\ TaxasAcimaDeMenosUm(params)) =>
       /\ Leq(sol.lo, Candidato) /\ Leq(Candidato, sol.hi)
       /\ Monotono(params, sol.lo, Candidato)
       /\ Monotono(params, Candidato, sol.hi)
  /\ (ProjecaoRetornou /\ TaxasAcimaDeMenosUm(params) /\ ComAporteMaior) =>
       /\ atingeMetaComAporte(params, params.aporteMensal)
            => atingeMetaComAporte(params, Add(params.aporteMensal, One))
       /\ SaldosNaoMenores(ret,
            calcularProjecao([params EXCEPT !.aporteMensal = Add(@, One)]))

\* the midpoint falls short and the upper end reaches the target, with a
\* contribution that shrinks every month and a negative return
C27_Witness ==
  /\ EmAporte /\ TaxasAcimaDeMenosUm(params)
  /\ pc = "apBis"
  /\ params.politicaAporte = MensalPct(Frac(-1, 2))
  /\ params.rentabAnual = Frac(-4095, 4096)
  /\ nMeses(params) = 2
  /\ ~atingeMetaComAporte(params, Candidato)
  /\ atingeMetaComAporte(params, sol.hi)

\* both contributions reach the target, the larger one with larger balances
C27_WitnessAmbos ==
  /\ ProjecaoRetornou /\ TaxasAcimaDeMenosUm(params) /\ ComAporteMaior
  /\ atingeMetaComAporte(params, params.aporteMensal)
  /\ params.usarTaxaReal
  /\ Len(ret.dados) > 3
  /\ Lt(ret.dados[Len(ret.dados)].saldo,
        calcularProjecao([params EXCEPT !.aporteMensal = Add(@, One)])
          .dados[Len(ret.dados)].saldo)


\* C28: for every input, aporteNecessario terminates and returns a number
\* after at most 50 doublings of a bound that starts at max(100, meta /
\* months) (stopping earlier once the bound is sufficient or exceeds 1e9) and
\* exactly 80 bisection steps (MaxBisecao here), also when the doubling never
\* finds a sufficient bound; taxaNecessaria terminates after at most 160
\* iterations (MaxIterTaxa here).
EmSolver ==
  /\ chamada \in {"aporteNecessario", "taxaNecessaria", "taxaNecessaria (part_000)"}
  /\ pc # "done"

SolverRetornou ==
  /\ chamada \in {"aporteNecessario", "taxaNecessaria", "taxaNecessaria (part_000)"}
  /\ pc = "done"

LimiteInicial == Max(Num(HiMinimo), Div(params.meta, Num(nMeses(params))))

\* the doubling: counted, capped, and only while the bound is short and small
DobrasLimitadas ==
  (chamada = "aporteNecessario" /\ pc \in {"apDobra", "apBis", "done"}) =>
    /\ sol.safety <= MaxDobras
    /\ IF pc = "apDobra"
       THEN /\ Div(sol.hi, Pow(Num(2), sol.safety)) = LimiteInicial
            /\ Leq(sol.hi, Num(HiMaximo))
            /\ sol.lo = Zero
       ELSE TRUE
    /\ (pc = "apBis" /\ sol.i = 0) =>
         /\ Div(sol.hi, Pow(Num(2), sol.safety)) = LimiteInicial
         /\ \/ Gt(sol.hi, Num(HiMaximo))
            \/ sol.safety = MaxDobras
            \/ atingeMetaComAporte(params, sol.hi)

\* the bisection: every return comes after all of its steps, with a number
BisecaoCompleta ==
  /\ (chamada = "aporteNecessario" /\ pc = "apBis") => sol.i <= MaxBisecao
  /\ (chamada = "aporteNecessario" /\ pc = "done") =>
       /\ sol.i = MaxBisecao
       /\ ret = sol.hi
       /\ IsFinite(ret)
       /\ Geq(ret, Zero)

\* the rate search: never more passes than its cap
PassosDaTaxaLimitados ==
  (chamada \in {"taxaNecessaria", "taxaNecessaria (part_000)"}) =>
    /\ sol.i <= MaxIterTaxa
    /\ Len(avaliados) <= MaxIterTaxa
    /\ sol.i <= Len(avaliados)

C28_LacosLimitados == DobrasLimitadas /\ BisecaoCompleta /\ PassosDaTaxaLimitados

C28_Termina ==
  /\ []C28_LacosLimitados
  /\ EmSolver ~> SolverRetornou

\* the bound is doubled until it passes 1e9 without ever being sufficient,
\* and the bisection still runs to its end and returns
C28_Witness ==
  /\ chamada = "aporteNecessario" /\ pc = "done"
  /\ sol.safety > 20
  /\ sol.i = MaxBisecao
  /\ Gt(ret, Num(HiMaximo))

\* the first bound is meta / months and is sufficient at once
C28_WitnessSemDobra ==
  /\ chamada = "aporteNecessario" /\ pc = "done"
  /\ sol.safety = 0
  /\ Gt(LimiteInicial, Num(HiMinimo))

\* the rate search stops early on a balance that is not finite
C28_WitnessTaxaCedo ==
  /\ chamada = "taxaNecessaria" /\ pc = "done"
  /\ Len(avaliados) < MaxIterTaxa

C28_WitnessTaxaCheia ==
  /\ chamada = "taxaNecessaria" /\ pc = "done"
  /\ sol.i = MaxIterTaxa


\* C29: for every horizon anos > 0, the month count the two solvers use,
\* max(1, round(anos * 12)), is either equal to the simulator's
\* max(1, floor(anos * 12)) or exactly one larger; for a whole number of
\* years the two are equal, so aporteNecessario reads the simulator's last
\* record directly and never takes the fallback to the last available record.
AnosInteiros(p) == Gt(p.anosLimite, Zero) /\ p.anosLimite = Num(Floor(p.anosLimite))

MesesCoerentes(p) ==
  /\ nMeses(p) \in {mesesLimite(p), mesesLimite(p) + 1}
  /\ AnosInteiros(p) => nMeses(p) = mesesLimite(p)

\* the horizons of up to MaxAno years in steps of half a month
Horizontes == {Frac(k, 24) : k \in 1..(24 * MaxAno)}

ComHorizonte(a) == [ParamsPadrao EXCEPT !.anosLimite = a]

C29_MesesDosSolvers ==
  /\ pc = "idle" => \A a \in Horizontes : MesesCoerentes(ComHorizonte(a))
  /\ (pc # "idle" /\ pc # "app" /\ Gt(params.anosLimite, Zero)) =>
       MesesCoerentes(params)
  /\ (EmAporte /\ AnosInteiros(params)) =>
       Len(calcularProjecao([params EXCEPT !.aporteMensal = Candidato]).dados)
         = nMeses(params) + 1

\* a whole year: the candidate's series ends on the solver's horizon month
C29_Witness ==
  /\ EmAporte
  /\ pc = "apBis"
  /\ params.anosLimite = One
  /\ nMeses(params) = 12
  /\ mesesLimite(params) = 12
  /\ Len(calcularProjecao([params EXCEPT !.aporteMensal = Candidato]).dados) = 13

\* a month and a half: the solver counts one month more than the simulator
C29_WitnessUmAMais ==
  /\ EmAporte
  /\ params.anosLimite = Frac(1, 8)
  /\ nMeses(params) = mesesLimite(params) + 1


\* C30: whenever taxaNecessaria returns a non-null annual rate R, running
\* calcularProjecao with rentabAnual = R, anosLimite = anos and the same
\* remaining parameters gives a balance of at least meta at the horizon
\* month, for both values of usarTaxaReal and for every inflation setting
\* (default rate or schedule, positive or negative).

\* taxaMensalNominalConst of calcularProjecao for rentabAnual = R, with R in
\* the factored form b^12 * f - 1: b * f^(1/12) - 1
taxaMensalDaAnual(R) == Sub(Mul(R.base12, Root12(R.fator)), One)

\* the factor of the conversion has an exact 12th root
RaizExata(f) ==
  /\ IsFinite(f)
  /\ f[1] >= 0
  /\ \E b \in 0..MaxRootBase : IPow(b, 12) = f[1]
  /\ \E b \in 0..MaxRootBase : IPow(b, 12) = f[2]

\* the balance of the last record of calcularProjecao run with that rate:
\* the months of the projection, the updates of its loop
saldoDaProjecaoComAnual(p, R) ==
  saldoAteMes(p, taxaMensalDaAnual(R), mesesLimite(p))

TaxaDevolvida ==
  /\ chamada = "taxaNecessaria"
  /\ pc = "done"
  /\ ret # NullNum
  /\ RaizExata(ret.fator)

C30_TaxaAtingeMeta ==
  TaxaDevolvida => Geq(saldoDaProjecaoComAnual(params, ret), params.meta)

\* the same where converting back gives the rate found: nominal mode, or
\* real mode with an average inflation of zero or more
C30_SemDeflacao ==
  (TaxaDevolvida /\ (~params.usarTaxaReal \/ Geq(inflacaoMediaAnual(params), Zero)))
    => Geq(saldoDaProjecaoComAnual(params, ret), params.meta)

\* real mode, prices falling: the rate returned falls short in the simulator
C30_WitnessDeflacao ==
  /\ TaxaDevolvida
  /\ params.usarTaxaReal
  /\ params.inflacaoAnual = Frac(-4095, 4096)
  /\ params.inflacaoTabela = Undefined
  /\ Geq(saldoFinalComTaxa(params, sol.found), params.meta)
  /\ Lt(saldoDaProjecaoComAnual(params, ret), params.meta)

\* real mode, prices rising: the rate returned reaches the target
C30_Witness ==
  /\ TaxaDevolvida
  /\ params.usarTaxaReal
  /\ params.inflacaoAnual = Num(4095)
  /\ params.inflacaoTabela = Undefined
  /\ nMeses(params) = 2
  /\ params.aporteMensal = One
  /\ Geq(saldoDaProjecaoComAnual(params, ret), params.meta)


====
